---- MODULE Spec2Model ----
(***************************************************************************)
(* Verification model of the trip-feedback client (React front end).       *)
(*                                                                         *)
(* Each component is modelled by its own group of variables and its own    *)
(* specification; a specification leaves the other groups at their initial *)
(* values.  Asynchronous handlers are split at their awaits: the part up   *)
(* to the await is one action, the continuation that runs when the awaited *)
(* call settles is another.                                                *)
(***************************************************************************)
EXTENDS Integers, Sequences, FiniteSets, Bags, TLC

(***************************************************************************)
(* Bounds of the model.                                                    *)
(***************************************************************************)
MaxQueue == 1
MaxSent == 3
MaxInFlight == 2
MaxOnlineEvents == 2

(***************************************************************************)
(* JavaScript values of a feedback category: a number, or a value whose    *)
(* typeof is not 'number' (undefined).                                     *)
(***************************************************************************)
Num(n) == <<"number", n>>
Undefined == <<"undefined", 0>>

Categories == {"tired", "energetic", "sick", "hungry", "adventurous"}

\* The sliders' initial position: every category at 5.
DefaultFeedback == [c \in Categories |-> Num(5)]

Null == "null"
Activities == {"a1", "a2"}

Range(s) == {s[k] : k \in DOMAIN s}

(***************************************************************************)
(* ParticipantExperience: feedback submission with the offline queue.      *)
(***************************************************************************)
VARIABLES
    isOnline,        \* useState(navigator.onLine)
    offlineQueue,    \* useState([]): items {id, type: 'feedback', data}
    currentActivity, \* useState(null): id of the current activity, or Null
    nextItemId,      \* stands for the fresh id `feedback_${Date.now()}_${random}`
    inFlight,        \* bag of the submitFeedback calls awaited, with their continuations
    sent,            \* ids of the queue items submitFeedback was called for, in call order
    lastAccepted,    \* per activity, the last request the server accepted (<<>> if none)
    runsDone,        \* invocations of processOfflineQueue that have returned
    superseded       \* per activity: an online value was accepted over a queued one

offlineVars == <<isOnline, offlineQueue, currentActivity, nextItemId, inFlight,
                 sent, lastAccepted, runsDone, superseded>>

\* RealTimeMonitoring's state (the component is modelled further down).
VARIABLES
    rtUser,             \* the user prop: "host" (is_admin) or "participant"
    rtCurrentActivity,  \* useState(null): Null, NoActivity or an activity id
    rtListenerActivity, \* currentActivity as the registered onMessage closure sees it
    rtFeedbackData,       \* useState(null): <<>> or <<the server's feedback summary>>
    alerts,             \* useState([]): newest first
    autoRefresh,        \* useState(true)
    pendingInits,       \* initializeMonitoring runs awaiting their responses
    pendingFeedback,    \* fetchActivityFeedback calls awaiting their response
    analysed,           \* band found by each analysis so far, in order
    rtMessages,         \* socket messages handled
    decisions           \* POST /pivot requests sent: who sent which decision

monitorVars == <<rtUser, rtCurrentActivity, rtListenerActivity, rtFeedbackData,
                 alerts, autoRefresh, pendingInits, pendingFeedback, analysed,
                 rtMessages, decisions>>

\* State of the other submit paths (modelled further down): ActivityFeedback,
\* VotingInterface and the useFeedback hook.
VARIABLES
    afFeedback,      \* ActivityFeedback useState: the five slider values
    afErrors,        \* ActivityFeedback errors: TRUE when field errors are set
    afIsSubmitting,  \* ActivityFeedback isSubmitting
    afSubmitMessage, \* ActivityFeedback submitMessage: Null, "error" or "success"
    viIsSubmitting,  \* VotingInterface isSubmitting
    viHasSubmitted,  \* VotingInterface hasSubmitted
    viSubmitStatus,  \* VotingInterface submitStatus: Null, "error" or "success"
    userFeedback,    \* useFeedback userFeedback: <<>> or <<the feedback stored>>
    submitCalls,     \* bag of the submitFeedback calls these paths await
    requests,        \* the requests sent to /feedback/submit, with their path
    propActivityId   \* the activityId prop / activity.id: NoId when there is none

submitVars == <<afFeedback, afErrors, afIsSubmitting, afSubmitMessage,
                viIsSubmitting, viHasSubmitted, viSubmitStatus, userFeedback,
                submitCalls, requests, propActivityId>>

\* TripHostDashboard's state and the server it talks to (modelled further
\* down).
VARIABLES
    activities,        \* useState([]): the status of each activity as last fetched
    hdCurrentActivity, \* useState(null): Null, NoActivity or an activity id
    hostCalls,         \* bag of the status requests (PUT) awaiting their response
    hostSent,          \* history: the last message the dashboard sent on the socket
    lastResponse,      \* history: the last status request answered, if any
    srvStatus,         \* server: the lifecycle state of each activity
    srvRisk            \* server: the overall risk tier of the current aggregate

hostVars == <<activities, hdCurrentActivity, hostCalls, hostSent, lastResponse,
              srvStatus, srvRisk>>

\* ActivityOptimization's state.
VARIABLES
    pendingActivities,   \* useState([]): titles of the pending activities
    aoCurrentFeedback,   \* useState(null): <<>> or <<average_scores>>
    aiAnalysis,          \* useState(null): <<>> or <<the analysis shown>>
    userLocation,        \* useState({lat: 0, lng: 0}): the latitude
    isOptimizing,        \* useState(false)
    optimizationResults, \* useState(null): <<>> or <<result>>
    previewCalls,        \* bag of the pivot requests awaiting their response
    lastPreview          \* history: how the last preview request ended, if any

previewVars == <<pendingActivities, aoCurrentFeedback, aiAnalysis, userLocation,
                 isOptimizing, optimizationResults, previewCalls, lastPreview>>

\* One SocketService and the listeners of the trips' events.
VARIABLES
    eventListeners,  \* this.eventListeners: per trip, the callbacks in insertion order
    rebroadcasts,    \* which callbacks call broadcastToTrip when they get a message
    throwing,        \* which callbacks throw when they are called
    broadcastCalls,  \* history: the message of each broadcastToTrip call, in call order
    dispatched,      \* history: the trip and the listeners each call found
    received         \* history: per callback, the calls it was handed, in order

broadcastVars == <<eventListeners, rebroadcasts, throwing, broadcastCalls,
                   dispatched, received>>

\* The useWebSocket hook.
VARIABLES
    socketStates,      \* the readyState of each WebSocket object in use
    socketRef,         \* socketRef.current: 0 (null) or the socket's number
    reconnectTimer,    \* reconnectTimeoutRef: a reconnection is scheduled
    reconnectAttempts, \* reconnectAttemptsRef.current
    wsCurrentActivity, \* useState(null): <<>> or <<[activity_id, status]>>
    lastMessage,       \* useState(null): <<>> or <<the last message handled>>
    recentFeedback,    \* useState([]): the entries kept, newest first
    wsSent,            \* history: the messages sent on the socket
    connectionStatus,  \* useState('disconnected')
    isConnected,       \* useState(false)
    heartbeatRef,      \* heartbeatIntervalRef: it holds an interval that runs
    strayTimers,       \* reconnect timers pending that no ref holds any more
    strayHeartbeats,   \* heartbeat intervals running that no ref holds any more
    pings,             \* history: the pings sent by heartbeat ticks
    participants,      \* useState([]): the roster
    constructorThrows, \* whether new WebSocket(wsUrl) throws for the hook's URL
    afterDisconnect,   \* history: disconnect was called and connect not since
    rosterEvents       \* history: the last roster event about each user

socketVars == <<socketStates, socketRef, reconnectTimer, reconnectAttempts,
                wsCurrentActivity, lastMessage, recentFeedback, wsSent,
                connectionStatus, isConnected, heartbeatRef, strayTimers,
                strayHeartbeats, pings, participants, constructorThrows,
                afterDisconnect, rosterEvents>>

\* The inputs and results of the display helpers: VotingInterface's response
\* rate, feedbackUtils' calculateSeverity and the two getOverallRiskLevel.
VARIABLES
    participantCount,      \* VotingInterface prop (activityStatus.totalParticipants)
    respondedParticipants, \* VotingInterface prop (activityStatus.responseCount)
    shownRate,             \* <<>> or <<what getResponseRate returned>>
    statusMessage,         \* <<>> or <<the type and icon getStatusMessage returned>>
    averages,              \* per category, the value calculateSeverity is given
    severities,            \* per category, <<>> or <<what calculateSeverity returned>>
    feedbackSeverities,    \* feedbackData[cat].severity per category (Missing if none)
    hookRisk,              \* <<>> or <<what useFeedback's getOverallRiskLevel returned>>
    discoveryRisk          \* <<>> or <<the level TripDiscovery's getOverallRiskLevel returned>>

rateVars == <<participantCount, respondedParticipants, shownRate, statusMessage>>
severityVars == <<averages, severities>>
riskVars == <<feedbackSeverities, hookRisk, discoveryRisk>>

\* One call of feedbackUtils' calculateWeightedAverage.
VARIABLES
    categoryAverages, \* feedbackData[cat].average per category (Undefined if no data)
    weights,          \* the weights argument: per category a number, or Undefined
    weightedAverage   \* <<>> or <<what calculateWeightedAverage returned>>

weightVars == <<categoryAverages, weights, weightedAverage>>
utilVars == <<rateVars, severityVars, riskVars, weightVars>>

\* One call of retryWithBackoff.
VARIABLES
    maxRetries,   \* the maxRetries argument
    attempt,      \* the loop variable
    retryPc,      \* where the call is: "loop", "calling", "waiting", "returned", "thrown"
    lastError,    \* let lastError: <<>> (undefined) or <<the error caught last>>
    retryOutcome, \* <<>>, or <<what the call returned or threw>>
    invocations   \* history: how each invocation of fn settled, in order

retryVars == <<maxRetries, attempt, retryPc, lastError, retryOutcome, invocations>>

\* One useFeedback hook, its cache and the server's aggregate it reads.
VARIABLES
    srvVersion,         \* how many submissions the server has accepted
    cacheEntry,         \* cacheRef's entry for the key while it is younger than
                        \* CACHE_EXPIRY: <<>> or <<the data cached>>
    ufFeedbackData,     \* useState(null): <<>> or <<the data shown>>
    fetchCalls,         \* bag of the fetchFeedbackData requests awaiting their response
    lastYield,          \* history: <<>> or <<how the last fetchFeedbackData that set data ended>>
    refreshIntervalRef, \* whether the polling interval is set
    submitPc            \* submitFeedbackData: "idle", "sent", "accepted"

cacheVars == <<srvVersion, cacheEntry, ufFeedbackData, fetchCalls, lastYield,
               refreshIntervalRef, submitPc>>

\* The components added after the host's dashboard.
laterVars == <<previewVars, broadcastVars, socketVars, utilVars, retryVars,
               cacheVars>>

\* What each of these components leaves alone.
FirstVars == <<offlineVars, monitorVars, submitVars, hostVars>>
PreviewOthers ==
    <<FirstVars, broadcastVars, socketVars, utilVars, retryVars, cacheVars>>
BroadcastOthers ==
    <<FirstVars, previewVars, socketVars, utilVars, retryVars, cacheVars>>
SocketOthers ==
    <<FirstVars, previewVars, broadcastVars, utilVars, retryVars, cacheVars>>
HookVars == <<previewVars, broadcastVars, socketVars>>
RateOthers ==
    <<FirstVars, HookVars, severityVars, riskVars, weightVars, retryVars, cacheVars>>
SeverityOthers ==
    <<FirstVars, HookVars, rateVars, riskVars, weightVars, retryVars, cacheVars>>
RiskOthers ==
    <<FirstVars, HookVars, rateVars, severityVars, weightVars, retryVars, cacheVars>>
WeightOthers ==
    <<FirstVars, HookVars, rateVars, severityVars, riskVars, retryVars, cacheVars>>
RetryOthers == <<FirstVars, HookVars, utilVars, cacheVars>>
CacheOthers == <<FirstVars, HookVars, utilVars, retryVars>>

\* The values a participant submits in the offline scenarios: hungry 8, hungry 3.
OfflineInputs == {[DefaultFeedback EXCEPT !["hungry"] = Num(h)] : h \in {3, 8}}

\* What fetch + handleResponse can do with one request: the server accepts it,
\* the server answers with an error status, or the request never arrives.
Outcomes == {"ok", "rejected", "network"}

\* submitFeedback's result: it catches every error and returns success:false.
submitFeedback(outcome) == [success |-> (outcome = "ok")]

OfflineInit ==
    /\ isOnline \in BOOLEAN
    /\ offlineQueue = <<>>
    /\ currentActivity = Null
    /\ nextItemId = 1
    /\ inFlight = EmptyBag
    /\ sent = <<>>
    /\ lastAccepted = [a \in Activities |-> <<>>]
    /\ runsDone = 0
    /\ superseded = [a \in Activities |-> "no"]

\* handleWebSocketMessage 'activity_update' / handleActivityStatusChange: the
\* current activity is replaced by the one in the message.
handleActivityUpdate(a) ==
    /\ currentActivity # a
    /\ currentActivity' = a
    /\ UNCHANGED <<isOnline, offlineQueue, nextItemId, inFlight, sent,
                   lastAccepted, runsDone, superseded>>
    /\ UNCHANGED monitorVars
    /\ UNCHANGED submitVars
    /\ UNCHANGED hostVars
    /\ UNCHANGED laterVars

\* A queued item for the same activity holds another value than feedbackData.
QueuedOtherValue(activityId, feedbackData) ==
    \E k \in DOMAIN offlineQueue :
        /\ offlineQueue[k].activityId = activityId
        /\ offlineQueue[k].feedback # feedbackData

\* handleFeedbackSubmission, up to its await (online) or to its end (offline):
\* its effect on ParticipantExperience's own state.
handleFeedbackSubmission(feedbackData) ==
    /\ currentActivity # Null
    /\ IF isOnline
       THEN /\ BagCardinality(inFlight) < MaxInFlight
            /\ inFlight' = inFlight (+) SetToBag({
                   [kind |-> "submit", activityId |-> currentActivity,
                    feedback |-> feedbackData,
                    overQueued |-> QueuedOtherValue(currentActivity, feedbackData),
                    items |-> <<>>, idx |-> 0, processed |-> {}]})
            /\ UNCHANGED <<offlineQueue, nextItemId, superseded>>
       ELSE /\ Len(offlineQueue) < MaxQueue
            /\ offlineQueue' = Append(offlineQueue,
                   [id |-> nextItemId, activityId |-> currentActivity,
                    feedback |-> feedbackData])
            /\ nextItemId' = nextItemId + 1
            /\ superseded' = [superseded EXCEPT ![currentActivity] = "no"]
            /\ UNCHANGED inFlight
    /\ UNCHANGED <<isOnline, currentActivity, sent, lastAccepted, runsDone>>

\* VotingInterface calls its onFeedbackSubmitted prop, which ParticipantExperience
\* sets to handleFeedbackSubmission.
onFeedbackSubmitted(feedbackData) ==
    /\ handleFeedbackSubmission(feedbackData)
    /\ UNCHANGED monitorVars
    /\ UNCHANGED submitVars
    /\ UNCHANGED hostVars
    /\ UNCHANGED laterVars

\* The offlineQueue that processOfflineQueue reads when the 'online' listener
\* calls it.  The listener is registered by an effect with an empty dependency
\* list, so it keeps the processOfflineQueue of the first render, whose
\* offlineQueue is the initial useState([]) value.
ListenerQueueLive == offlineQueue
ListenerQueue == <<>>

\* The request processOfflineQueue awaits for items[idx].
ReplayCall(items, idx, processed) ==
    [kind |-> "replay", activityId |-> items[idx].activityId,
     feedback |-> items[idx].feedback, overQueued |-> FALSE,
     items |-> items, idx |-> idx, processed |-> processed]

\* A run of processOfflineQueue has returned: the online values accepted so
\* far over a queued one have now seen a replay.
AfterRun(sup) ==
    [a \in Activities |-> IF sup[a] = "yes" THEN "replayed" ELSE sup[a]]

\* handleOnline: setIsOnline(true), then processOfflineQueue up to its first
\* await; with an empty queue it returns at once.
handleOnline ==
    /\ ~isOnline
    /\ runsDone < MaxOnlineEvents
    /\ isOnline' = TRUE
    /\ IF Len(ListenerQueue) = 0
       THEN /\ runsDone' = runsDone + 1
            /\ superseded' = AfterRun(superseded)
            /\ UNCHANGED <<inFlight, sent>>
       ELSE /\ BagCardinality(inFlight) < MaxInFlight
            /\ Len(sent) < MaxSent
            /\ inFlight' = inFlight (+) SetToBag({ReplayCall(ListenerQueue, 1, {})})
            /\ sent' = Append(sent, ListenerQueue[1].id)
            /\ UNCHANGED <<runsDone, superseded>>
    /\ UNCHANGED <<offlineQueue, currentActivity, nextItemId, lastAccepted>>
    /\ UNCHANGED monitorVars
    /\ UNCHANGED submitVars
    /\ UNCHANGED hostVars
    /\ UNCHANGED laterVars

handleOffline ==
    /\ isOnline
    /\ isOnline' = FALSE
    /\ UNCHANGED <<offlineQueue, currentActivity, nextItemId, inFlight, sent,
                   lastAccepted, runsDone, superseded>>
    /\ UNCHANGED monitorVars
    /\ UNCHANGED submitVars
    /\ UNCHANGED hostVars
    /\ UNCHANGED laterVars

\* An awaited submitFeedback settles and the handler that awaited it goes on:
\* handleFeedbackSubmission reports the result or throws; processOfflineQueue
\* counts the item as processed whatever the result, awaits the next item, and
\* after the last one removes the processed items from the queue.
settle(call, outcome) ==
    LET result == submitFeedback(outcome)
        rest == inFlight (-) SetToBag({call})
        accepted == IF outcome = "ok"
                    THEN [lastAccepted EXCEPT ![call.activityId] =
                             <<[feedback |-> call.feedback, via |-> call.kind]>>]
                    ELSE lastAccepted
    IN
    /\ lastAccepted' = accepted
    /\ IF call.kind = "submit"
       THEN /\ inFlight' = rest
            /\ superseded' =
                   IF result.success /\ call.overQueued
                   THEN [superseded EXCEPT ![call.activityId] = "yes"]
                   ELSE superseded
            /\ UNCHANGED <<offlineQueue, sent, runsDone>>
       ELSE LET processedItems == call.processed \cup {call.items[call.idx].id}
            IN IF call.idx < Len(call.items)
               THEN /\ Len(sent) < MaxSent
                    /\ inFlight' = rest (+) SetToBag({
                          ReplayCall(call.items, call.idx + 1, processedItems)})
                    /\ sent' = Append(sent, call.items[call.idx + 1].id)
                    /\ UNCHANGED <<offlineQueue, runsDone, superseded>>
               ELSE /\ inFlight' = rest
                    /\ offlineQueue' = SelectSeq(offlineQueue,
                          LAMBDA item : item.id \notin processedItems)
                    /\ runsDone' = runsDone + 1
                    /\ superseded' = AfterRun(superseded)
                    /\ UNCHANGED sent
    /\ UNCHANGED <<isOnline, currentActivity, nextItemId>>
    /\ UNCHANGED monitorVars
    /\ UNCHANGED submitVars
    /\ UNCHANGED hostVars
    /\ UNCHANGED laterVars

OfflineNext ==
    \/ \E a \in Activities : handleActivityUpdate(a)
    \/ \E f \in OfflineInputs : onFeedbackSubmitted(f)
    \/ handleOnline
    \/ handleOffline
    \/ \E call \in BagToSet(inFlight), o \in Outcomes : settle(call, o)

(***************************************************************************)
(* RealTimeMonitoring: the host's monitoring panel with its alerts list.   *)
(***************************************************************************)
MaxAnalyses == 2
MaxMessages == 1
MaxPendingInits == 1
MaxDecisions == 1

\* Thresholds of analyzeFeedbackForAlerts and the length addAlert keeps of
\* the previous list.
CriticalScore == 75
HighScore == 60
SickBelow == 3
HungryAbove == 4
TiredAbove == 4
KeptAlerts == 9

Roles == {"host", "participant"}

\* /current-activity answered with an object that has no activity.
NoActivity == "none"

\* Group averages as the server reports them: nobody strained, or everybody.
Calm == [sick |-> 5, hungry |-> 3, tired |-> 3]
Strained == [sick |-> 2, hungry |-> 6, tired |-> 6]

\* Responses of /api/activities/{id}/feedback: fatigue_analysis is missing
\* (<<>>), or holds an overall score below the bands, in HIGH or in CRITICAL.
FeedbackResponses ==
    {[fatigue_analysis |-> <<>>, average_scores |-> Calm],
     [fatigue_analysis |-> <<50>>, average_scores |-> Calm],
     [fatigue_analysis |-> <<70>>, average_scores |-> Strained],
     [fatigue_analysis |-> <<80>>, average_scores |-> Calm]}

Alert(title, type) == [title |-> title, type |-> type]

\* addAlert on the list prev.
addAlert(prev, alert) ==
    <<alert>> \o SubSeq(prev, 1, IF Len(prev) < KeptAlerts THEN Len(prev) ELSE KeptAlerts)

RECURSIVE addAlerts(_, _)
addAlerts(prev, new) ==
    IF new = <<>> THEN prev
    ELSE addAlerts(addAlert(prev, Head(new)), Tail(new))

\* The alerts analyzeFeedbackForAlerts adds for data, in call order.
analyzeFeedbackForAlerts(data) ==
    IF data.fatigue_analysis = <<>> THEN <<>>
    ELSE LET overall_score == data.fatigue_analysis[1]
             average_scores == data.average_scores
         IN (IF overall_score > CriticalScore
                THEN <<Alert("CRITICAL: Group fatigue level", "critical")>>
             ELSE IF overall_score > HighScore
                THEN <<Alert("HIGH: Group fatigue level", "warning")>>
             ELSE <<>>)
            \o (IF average_scores.sick < SickBelow
                THEN <<Alert("Health Alert", "critical")>> ELSE <<>>)
            \o (IF average_scores.hungry > HungryAbove
                THEN <<Alert("Hunger Alert", "warning")>> ELSE <<>>)
            \o (IF average_scores.tired > TiredAbove
                THEN <<Alert("Fatigue Alert", "warning")>> ELSE <<>>)

\* The band an analysis of data finds the overall score in.
Band(data) == IF data.fatigue_analysis[1] > HighScore THEN "in" ELSE "below"

MonitorInit ==
    /\ rtUser \in Roles
    /\ rtCurrentActivity = Null
    /\ rtListenerActivity = Null
    /\ rtFeedbackData = <<>>
    /\ alerts = <<>>
    /\ autoRefresh = TRUE
    /\ pendingInits = 1
    /\ pendingFeedback = 0
    /\ analysed = <<>>
    /\ rtMessages = 0
    /\ decisions = <<>>

\* The monitoring panel while another component is exercised: mounted for a
\* host, nothing received yet.
MonitorIdle ==
    /\ rtUser = "host"
    /\ rtCurrentActivity = Null
    /\ rtListenerActivity = Null
    /\ rtFeedbackData = <<>>
    /\ alerts = <<>>
    /\ autoRefresh = TRUE
    /\ pendingInits = 1
    /\ pendingFeedback = 0
    /\ analysed = <<>>
    /\ rtMessages = 0
    /\ decisions = <<>>

\* Another fetchActivityFeedback may be issued within the bound on analyses.
CanFetchFeedback == Len(analysed) + pendingFeedback < MaxAnalyses

\* The Auto Refresh button: setAutoRefresh(!autoRefresh); the effect depends on
\* autoRefresh, so it runs again: initializeMonitoring starts and the message
\* listener is registered anew, closing over the currentActivity of this render.
toggleAutoRefresh ==
    /\ pendingInits < MaxPendingInits
    /\ autoRefresh' = ~autoRefresh
    /\ rtListenerActivity' = rtCurrentActivity
    /\ pendingInits' = pendingInits + 1
    /\ UNCHANGED <<rtUser, rtCurrentActivity, rtFeedbackData, alerts,
                   pendingFeedback, analysed, rtMessages, decisions>>
    /\ UNCHANGED offlineVars
    /\ UNCHANGED submitVars
    /\ UNCHANGED hostVars
    /\ UNCHANGED laterVars

\* initializeMonitoring once its fetches have answered: fetchCurrentActivity
\* stores the answer and, when it names an activity, starts
\* fetchActivityFeedback; fetchRecentAlerts then replaces the alerts list.
\* lowEnergy: realTimeStats reports an average mood below 3.
initializeMonitoring(ok, data, lowEnergy) ==
    /\ pendingInits > 0
    /\ pendingInits' = pendingInits - 1
    /\ IF ok
       THEN /\ rtCurrentActivity' = data
            /\ IF data \in Activities
               THEN /\ CanFetchFeedback
                    /\ pendingFeedback' = pendingFeedback + 1
               ELSE UNCHANGED pendingFeedback
       ELSE UNCHANGED <<rtCurrentActivity, pendingFeedback>>
    /\ alerts' = IF lowEnergy THEN <<Alert("Low Energy Alert", "warning")>>
                 ELSE <<>>
    /\ UNCHANGED <<rtUser, rtListenerActivity, rtFeedbackData, autoRefresh,
                   analysed, rtMessages, decisions>>
    /\ UNCHANGED offlineVars
    /\ UNCHANGED submitVars
    /\ UNCHANGED hostVars
    /\ UNCHANGED laterVars

\* fetchActivityFeedback once its fetch has answered: with response.ok the
\* data is stored and analysed, otherwise nothing happens.
fetchActivityFeedback(ok, data) ==
    /\ pendingFeedback > 0
    /\ pendingFeedback' = pendingFeedback - 1
    /\ IF ok
       THEN /\ rtFeedbackData' = <<data>>
            /\ alerts' = addAlerts(alerts, analyzeFeedbackForAlerts(data))
            /\ analysed' = IF data.fatigue_analysis = <<>> THEN analysed
                           ELSE Append(analysed, Band(data))
       ELSE UNCHANGED <<rtFeedbackData, alerts, analysed>>
    /\ UNCHANGED <<rtUser, rtCurrentActivity, rtListenerActivity, autoRefresh,
                   pendingInits, rtMessages, decisions>>
    /\ UNCHANGED offlineVars
    /\ UNCHANGED submitVars
    /\ UNCHANGED hostVars
    /\ UNCHANGED laterVars

Messages ==
    [type : {"feedback_submitted", "activity_started", "activity_completed"},
     activity_id : Activities]

\* handleRealTimeUpdate, called by the registered onMessage listener.
handleRealTimeUpdate(message) ==
    /\ rtMessages < MaxMessages
    /\ rtMessages' = rtMessages + 1
    /\ CASE message.type = "feedback_submitted" ->
              /\ IF rtListenerActivity # Null
                    /\ message.activity_id = rtListenerActivity
                 THEN /\ CanFetchFeedback
                      /\ pendingFeedback' = pendingFeedback + 1
                 ELSE UNCHANGED pendingFeedback
              /\ alerts' = addAlert(alerts,
                     Alert("New feedback received from participant", "info"))
              /\ UNCHANGED <<rtCurrentActivity, rtFeedbackData>>
         [] message.type = "activity_started" ->
              /\ CanFetchFeedback
              /\ rtCurrentActivity' = message.activity_id
              /\ pendingFeedback' = pendingFeedback + 1
              /\ alerts' = addAlert(alerts, Alert("Activity started", "success"))
              /\ UNCHANGED rtFeedbackData
         [] message.type = "activity_completed" ->
              /\ rtCurrentActivity' = Null
              /\ rtFeedbackData' = <<>>
              /\ alerts' = addAlert(alerts, Alert("Activity completed", "info"))
              /\ UNCHANGED pendingFeedback
    /\ UNCHANGED <<rtUser, rtListenerActivity, autoRefresh, pendingInits,
                   analysed, decisions>>
    /\ UNCHANGED offlineVars
    /\ UNCHANGED submitVars
    /\ UNCHANGED hostVars
    /\ UNCHANGED laterVars

\* The Clear All button.
clearAlerts ==
    /\ alerts # <<>>
    /\ alerts' = <<>>
    /\ UNCHANGED <<rtUser, rtCurrentActivity, rtListenerActivity, rtFeedbackData,
                   autoRefresh, pendingInits, pendingFeedback, analysed,
                   rtMessages, decisions>>
    /\ UNCHANGED offlineVars
    /\ UNCHANGED submitVars
    /\ UNCHANGED hostVars
    /\ UNCHANGED laterVars

\* forceContinue, shown while currentActivity holds an activity: the request
\* is sent with admin_id: user.id, then an alert reports how it went.
forceContinue(outcome) ==
    /\ rtCurrentActivity \in Activities
    /\ Len(decisions) < MaxDecisions
    /\ decisions' = Append(decisions,
           [admin |-> rtUser, decision |-> "FORCE_CONTINUE"])
    /\ alerts' = addAlert(alerts,
           IF outcome = "ok" THEN Alert("Force Continue", "info")
           ELSE IF outcome = "rejected" THEN Alert("Continue Failed", "error")
           ELSE Alert("Continue Error", "error"))
    /\ UNCHANGED <<rtUser, rtCurrentActivity, rtListenerActivity, rtFeedbackData,
                   autoRefresh, pendingInits, pendingFeedback, analysed,
                   rtMessages>>
    /\ UNCHANGED offlineVars
    /\ UNCHANGED submitVars
    /\ UNCHANGED hostVars
    /\ UNCHANGED laterVars

MonitorNext ==
    \/ toggleAutoRefresh
    \/ \E ok \in BOOLEAN, data \in {NoActivity} \cup Activities,
          lowEnergy \in BOOLEAN : initializeMonitoring(ok, data, lowEnergy)
    \/ \E ok \in BOOLEAN, data \in FeedbackResponses :
          fetchActivityFeedback(ok, data)
    \/ \E message \in Messages : handleRealTimeUpdate(message)
    \/ clearAlerts
    \/ \E outcome \in Outcomes : forceContinue(outcome)

(***************************************************************************)
(* The submit paths: ActivityFeedback.handleSubmit, which VotingInterface  *)
(* shows as a modal with onSuccess = handleSubmitFeedback; VotingInterface,*)
(* whose onFeedbackSubmitted is ParticipantExperience's                    *)
(* handleFeedbackSubmission; and useFeedback's submitFeedbackData.         *)
(***************************************************************************)
MaxRequests == 3

\* validateFeedbackData's range: a category must be a number from 1 to 10.
MinScore == 1
MaxScore == 10

\* Values a caller may pass for one category.
TestValues == {Num(0), Num(8), Num(11), Undefined}

\* Feedback objects handed to the hook's submitFeedbackData.
SubmitInputs == {[DefaultFeedback EXCEPT !["hungry"] = v] : v \in TestValues}

\* The existingFeedback prop of ActivityFeedback: absent, or with one value.
ExistingInputs == {[DefaultFeedback EXCEPT !["hungry"] = v] :
                      v \in {Undefined, Num(0), Num(11)}}

\* `x || 5`: undefined and 0 are falsy.
OrFive(x) == IF x = Undefined \/ x = Num(0) THEN Num(5) ELSE x

\* An object without the five category fields.
NoCategories == [c \in Categories |-> Undefined]

\* result.data of an accepted submission: the server's answer carries the
\* submitted values, or it does not carry category fields at all.
ServerData(feedback) == {feedback, NoCategories}

\* No activity id: the prop is undefined.
NoId == "undefined"

\* handleSubmit's validationData.activityId: activityId || `activity-${now}`
ValidationId(id) == IF id = NoId THEN "activity-now" ELSE id

\* validateFeedbackData's first check: an activity id is required.
HasActivityId(id) == id # NoId

\* validateFeedbackData's range check of the five categories.
validateFeedbackData(feedbackData) ==
    \A c \in Categories :
        /\ feedbackData[c][1] = "number"
        /\ feedbackData[c][2] >= MinScore
        /\ feedbackData[c][2] <= MaxScore

\* The positions the range sliders (min 1, max 10) are moved to.
SliderInputs == {3, 8}
SliderCategories == {"hungry", "tired"}

SubmitInit ==
    /\ afFeedback \in {[c \in Categories |-> OrFive(e[c])] : e \in ExistingInputs}
    /\ afErrors = FALSE
    /\ afIsSubmitting = FALSE
    /\ afSubmitMessage = Null
    /\ viIsSubmitting = FALSE
    /\ viHasSubmitted = FALSE
    /\ viSubmitStatus = Null
    /\ userFeedback = <<>>
    /\ submitCalls = EmptyBag
    /\ requests = <<>>
    /\ propActivityId \in {NoId, "a1"}

\* The submit paths while another component is exercised.
SubmitIdle ==
    /\ afFeedback = DefaultFeedback
    /\ afErrors = FALSE
    /\ afIsSubmitting = FALSE
    /\ afSubmitMessage = Null
    /\ viIsSubmitting = FALSE
    /\ viHasSubmitted = FALSE
    /\ viSubmitStatus = Null
    /\ userFeedback = <<>>
    /\ submitCalls = EmptyBag
    /\ requests = <<>>
    /\ propActivityId = "a1"

\* submitFeedback(feedbackData) called from path: the request goes out and the
\* caller awaits the result.
Call(path, feedback) ==
    [path |-> path, feedback |-> feedback, activityId |-> propActivityId]

\* ActivityFeedback.handleSliderChange; the sliders are disabled while
\* submitting.
handleSliderChange(category, value) ==
    /\ ~afIsSubmitting /\ ~viIsSubmitting
    /\ afFeedback[category] # Num(value)
    /\ afFeedback' = [afFeedback EXCEPT ![category] = Num(value)]
    /\ UNCHANGED <<afErrors, afIsSubmitting, afSubmitMessage, viIsSubmitting,
                   viHasSubmitted, viSubmitStatus, userFeedback, submitCalls,
                   requests>>
    /\ UNCHANGED offlineVars
    /\ UNCHANGED propActivityId
    /\ UNCHANGED monitorVars
    /\ UNCHANGED hostVars
    /\ UNCHANGED laterVars

\* ActivityFeedback.handleSubmit up to its await; the submit button is
\* disabled while submitting.
handleSubmit ==
    /\ ~afIsSubmitting /\ ~viIsSubmitting
    /\ IF ~(HasActivityId(ValidationId(propActivityId))
             /\ validateFeedbackData(afFeedback))
       THEN /\ afErrors' = TRUE
            /\ afSubmitMessage' = "error"
            /\ UNCHANGED <<afIsSubmitting, submitCalls, requests>>
       ELSE /\ Len(requests) < MaxRequests
            /\ afSubmitMessage' = Null
            /\ afIsSubmitting' = TRUE
            /\ submitCalls' = submitCalls (+) SetToBag({Call("af", afFeedback)})
            /\ requests' = Append(requests, Call("af", afFeedback))
            /\ UNCHANGED afErrors
    /\ UNCHANGED <<afFeedback, viIsSubmitting, viHasSubmitted, viSubmitStatus,
                   userFeedback>>
    /\ UNCHANGED offlineVars
    /\ UNCHANGED propActivityId
    /\ UNCHANGED monitorVars
    /\ UNCHANGED hostVars
    /\ UNCHANGED laterVars

\* handleSubmit after its await.  On success the form is reset and
\* onSuccess(result.data) runs VotingInterface.handleSubmitFeedback up to its
\* own await: without an activity id it reports an error, otherwise it sends
\* result.data as a submission of its own.
handleSubmitSettled(call, outcome, data) ==
    /\ call.path = "af"
    /\ IF submitFeedback(outcome).success
       THEN /\ afSubmitMessage' = "success"
            /\ afFeedback' = DefaultFeedback
            /\ IF propActivityId = NoId
               THEN /\ viSubmitStatus' = "error"
                    /\ submitCalls' = submitCalls (-) SetToBag({call})
                    /\ UNCHANGED <<viIsSubmitting, requests>>
               ELSE /\ Len(requests) < MaxRequests
                    /\ viIsSubmitting' = TRUE
                    /\ viSubmitStatus' = Null
                    /\ submitCalls' = (submitCalls (-) SetToBag({call}))
                                         (+) SetToBag({Call("vi", data)})
                    /\ requests' = Append(requests, Call("vi", data))
       ELSE /\ afSubmitMessage' = "error"
            /\ submitCalls' = submitCalls (-) SetToBag({call})
            /\ UNCHANGED <<afFeedback, viIsSubmitting, viSubmitStatus, requests>>
    /\ afIsSubmitting' = FALSE
    /\ UNCHANGED <<afErrors, viHasSubmitted, userFeedback>>
    /\ UNCHANGED offlineVars
    /\ UNCHANGED propActivityId
    /\ UNCHANGED monitorVars
    /\ UNCHANGED hostVars
    /\ UNCHANGED laterVars

\* VotingInterface.handleSubmitFeedback after its await.  On success
\* onFeedbackSubmitted(result.data) runs handleFeedbackSubmission.
handleSubmitFeedbackSettled(call, outcome, data) ==
    /\ call.path = "vi"
    /\ submitCalls' = submitCalls (-) SetToBag({call})
    /\ IF submitFeedback(outcome).success
       THEN /\ viHasSubmitted' = TRUE
            /\ viSubmitStatus' = "success"
            /\ handleFeedbackSubmission(data)
       ELSE /\ viSubmitStatus' = "error"
            /\ UNCHANGED viHasSubmitted
            /\ UNCHANGED offlineVars
    /\ viIsSubmitting' = FALSE
    /\ UNCHANGED <<afFeedback, afErrors, afIsSubmitting, afSubmitMessage,
                   userFeedback, requests>>
    /\ UNCHANGED propActivityId
    /\ UNCHANGED monitorVars
    /\ UNCHANGED hostVars
    /\ UNCHANGED laterVars

\* useFeedback.submitFeedbackData up to its await; without an activity id it
\* throws and nothing is sent.
submitFeedbackData(feedback) ==
    /\ propActivityId # NoId
    /\ Len(requests) < MaxRequests
    /\ submitCalls' = submitCalls (+) SetToBag({Call("uf", feedback)})
    /\ requests' = Append(requests, Call("uf", feedback))
    /\ UNCHANGED <<afFeedback, afErrors, afIsSubmitting, afSubmitMessage,
                   viIsSubmitting, viHasSubmitted, viSubmitStatus, userFeedback>>
    /\ UNCHANGED offlineVars
    /\ UNCHANGED propActivityId
    /\ UNCHANGED monitorVars
    /\ UNCHANGED hostVars
    /\ UNCHANGED laterVars

\* submitFeedbackData after its await: on success the feedback is stored as
\* the user's own, otherwise the error is thrown to the caller.
submitFeedbackDataSettled(call, outcome) ==
    /\ call.path = "uf"
    /\ submitCalls' = submitCalls (-) SetToBag({call})
    /\ userFeedback' = IF submitFeedback(outcome).success THEN <<call.feedback>>
                       ELSE userFeedback
    /\ UNCHANGED <<afFeedback, afErrors, afIsSubmitting, afSubmitMessage,
                   viIsSubmitting, viHasSubmitted, viSubmitStatus, requests>>
    /\ UNCHANGED offlineVars
    /\ UNCHANGED propActivityId
    /\ UNCHANGED monitorVars
    /\ UNCHANGED hostVars
    /\ UNCHANGED laterVars

SubmitNext ==
    \/ \E c \in SliderCategories, v \in SliderInputs : handleSliderChange(c, v)
    \/ handleSubmit
    \/ \E call \in BagToSet(submitCalls), o \in Outcomes :
          \E data \in ServerData(call.feedback) : handleSubmitSettled(call, o, data)
    \/ \E call \in BagToSet(submitCalls), o \in Outcomes :
          \E data \in ServerData(call.feedback) :
              handleSubmitFeedbackSettled(call, o, data)
    \/ \E f \in SubmitInputs : submitFeedbackData(f)
    \/ \E call \in BagToSet(submitCalls), o \in Outcomes :
          submitFeedbackDataSettled(call, o)
    \/ \E call \in BagToSet(inFlight), o \in Outcomes : settle(call, o)

(***************************************************************************)
(* The host's dashboard (TripHostDashboard) and the activity lifecycle.    *)
(* The dashboard only asks: the server decides each status request.  The   *)
(* server's code is not part of the front end, so its decision is written  *)
(* from the specification's lifecycle rules.                               *)
(***************************************************************************)
MaxHostCalls == 2

Statuses == {"pending", "active", "awaiting_consensus", "completed", "pivoted"}
InProgress == {"active", "awaiting_consensus"}
Terminal == {"completed", "pivoted"}

RiskTiers == {"LOW", "MODERATE", "HIGH", "CRITICAL"}
TierRank(tier) ==
    CASE tier = "LOW" -> 1
      [] tier = "MODERATE" -> 2
      [] tier = "HIGH" -> 3
      [] tier = "CRITICAL" -> 4

\* Another activity of the trip is active or awaiting consensus.
OtherInProgress(st, id) == \E o \in Activities \ {id} : st[o] \in InProgress

\* pending -> active requires that no other activity is in progress.
StartAlwaysAllowed(st, id) == TRUE
StartAllowed(st, id) == ~OtherInProgress(st, id)

\* Outcome `continue` requires an overall risk of MODERATE or lower.
ContinueAllowed(risk) == TierRank(risk) <= TierRank("MODERATE")

\* The lifecycle: pending -> active -> awaiting_consensus -> {completed,
\* pivoted}.
AnyStatus(status) == Statuses
NextStatuses(status) ==
    CASE status = "pending" -> {"active"}
      [] status = "active" -> {"awaiting_consensus"}
      [] status = "awaiting_consensus" -> {"completed", "pivoted"}
      [] OTHER -> {}

\* The server's answer to a request to move activity id to newStatus.
ServerResponse(st, risk, id, newStatus) ==
    CASE newStatus = "active" /\ ~StartAllowed(st, id) -> "ActivityInProgress"
      [] newStatus = "completed" /\ ~ContinueAllowed(risk) ->
             "RiskTooHighToContinue"
      [] newStatus \in NextStatuses(st[id]) -> "ok"
      [] OTHER -> "InvalidTransition"

\* The statuses after the server has handled the request.
ServerApply(st, risk, id, newStatus) ==
    IF ServerResponse(st, risk, id, newStatus) = "ok"
    THEN [st EXCEPT ![id] = newStatus]
    ELSE st

\* GET current-activity: the activity in progress, if any.
CurrentOf(st) ==
    IF \E a \in Activities : st[a] \in InProgress
    THEN CHOOSE a \in Activities : st[a] \in InProgress
    ELSE NoActivity

NotLoaded == [a \in Activities |-> "unknown"]

HostInit ==
    /\ activities = NotLoaded
    /\ hdCurrentActivity = Null
    /\ hostCalls = EmptyBag
    /\ hostSent = <<>>
    /\ lastResponse = <<>>
    /\ srvStatus = [a \in Activities |-> "pending"]
    /\ srvRisk = "LOW"

\* The dashboard not mounted, no activity started.
HostIdle ==
    /\ activities = NotLoaded
    /\ hdCurrentActivity = Null
    /\ hostCalls = EmptyBag
    /\ hostSent = <<>>
    /\ lastResponse = <<>>
    /\ srvStatus = [a \in Activities |-> "pending"]
    /\ srvRisk = "LOW"

\* fetchActivities: the list is replaced by the server's.
fetchActivities ==
    /\ activities # srvStatus
    /\ activities' = srvStatus
    /\ UNCHANGED <<hdCurrentActivity, hostCalls, hostSent, lastResponse, srvStatus,
                   srvRisk>>
    /\ UNCHANGED offlineVars
    /\ UNCHANGED monitorVars
    /\ UNCHANGED submitVars
    /\ UNCHANGED laterVars

\* fetchCurrentActivity: the current activity is replaced by the server's.
fetchCurrentActivity ==
    /\ hdCurrentActivity # CurrentOf(srvStatus)
    /\ hdCurrentActivity' = CurrentOf(srvStatus)
    /\ UNCHANGED <<activities, hostCalls, hostSent, lastResponse, srvStatus,
                   srvRisk>>
    /\ UNCHANGED offlineVars
    /\ UNCHANGED monitorVars
    /\ UNCHANGED submitVars
    /\ UNCHANGED laterVars

StatusCall(activityId, status) == [activityId |-> activityId, status |-> status]

\* The request a button of the list sends; the handler then awaits the
\* response.
sendStatus(activityId, status) ==
    /\ BagCardinality(hostCalls) < MaxHostCalls
    /\ hostCalls' = hostCalls (+) SetToBag({StatusCall(activityId, status)})
    /\ UNCHANGED <<activities, hdCurrentActivity, hostSent, lastResponse, srvStatus,
                   srvRisk>>
    /\ UNCHANGED offlineVars
    /\ UNCHANGED monitorVars
    /\ UNCHANGED submitVars
    /\ UNCHANGED laterVars

\* startActivity up to its await: the Start button is shown for an activity
\* listed as pending.
startActivity(activityId) ==
    /\ activities[activityId] = "pending"
    /\ sendStatus(activityId, "active")

\* completeActivity up to its await: the Complete button is shown for an
\* activity listed as active.
completeActivity(activityId) ==
    /\ activities[activityId] = "active"
    /\ sendStatus(activityId, "completed")

\* if (response.ok)
ResponseIgnored(response) == TRUE
ResponseOk(response) == response = "ok"

Announcement(call) ==
    [type |-> IF call.status = "active" THEN "activity_started"
              ELSE "activity_completed",
     activity_id |-> call.activityId]

\* The server handles a status request and the handler resumes with the
\* response: when it is ok the change is announced on the socket (if there
\* is one) and the list is fetched again; startActivity also fetches the
\* current activity, completeActivity clears it.
statusResponse(call) ==
    LET response == ServerResponse(srvStatus, srvRisk, call.activityId,
                                   call.status)
    IN  /\ hostCalls' = hostCalls (-) SetToBag({call})
        /\ lastResponse' = <<[call |-> call, response |-> response]>>
        /\ srvStatus' = ServerApply(srvStatus, srvRisk, call.activityId,
                                    call.status)
        /\ IF ResponseOk(response)
           THEN /\ \E socket \in BOOLEAN :
                      hostSent' = IF socket
                                  THEN <<Announcement(call)>>
                                  ELSE hostSent
                /\ activities' = srvStatus'
                /\ hdCurrentActivity' = IF call.status = "active"
                                        THEN CurrentOf(srvStatus')
                                        ELSE Null
           ELSE UNCHANGED <<activities, hdCurrentActivity, hostSent>>
        /\ UNCHANGED srvRisk
        /\ UNCHANGED offlineVars
        /\ UNCHANGED monitorVars
        /\ UNCHANGED submitVars
        /\ UNCHANGED laterVars

\* useWebSocket's updateActivityStatus: any new status is sent as given; the
\* server decides (an update it refuses changes nothing and is no step).
updateActivityStatus(activityId, newStatus) ==
    /\ ServerApply(srvStatus, srvRisk, activityId, newStatus) # srvStatus
    /\ srvStatus' = ServerApply(srvStatus, srvRisk, activityId, newStatus)
    /\ UNCHANGED <<activities, hdCurrentActivity, hostCalls, hostSent, lastResponse,
                   srvRisk>>
    /\ UNCHANGED offlineVars
    /\ UNCHANGED monitorVars
    /\ UNCHANGED submitVars
    /\ UNCHANGED laterVars

\* The participants' feedback moves the overall risk tier.
riskChanges(tier) ==
    /\ tier # srvRisk
    /\ srvRisk' = tier
    /\ UNCHANGED <<activities, hdCurrentActivity, hostCalls, hostSent, lastResponse,
                   srvStatus>>
    /\ UNCHANGED offlineVars
    /\ UNCHANGED monitorVars
    /\ UNCHANGED submitVars
    /\ UNCHANGED laterVars

\* The server moves the active activity to awaiting_consensus: an alert of
\* tier HIGH or CRITICAL, every participant having answered, or the host's
\* manual trigger.
consensusTriggered(activityId) ==
    /\ srvStatus[activityId] = "active"
    /\ srvStatus' = [srvStatus EXCEPT ![activityId] = "awaiting_consensus"]
    /\ UNCHANGED <<activities, hdCurrentActivity, hostCalls, hostSent, lastResponse,
                   srvRisk>>
    /\ UNCHANGED offlineVars
    /\ UNCHANGED monitorVars
    /\ UNCHANGED submitVars
    /\ UNCHANGED laterVars

HostDecisions == {"pivot_with_recommendation", "force_continue"}

\* The host's other decisions on an activity awaiting consensus:
\* force_continue completes it whatever the risk, pivot_with_recommendation
\* pivots it.
hostDecision(activityId, outcome) ==
    /\ srvStatus[activityId] = "awaiting_consensus"
    /\ srvStatus' = [srvStatus EXCEPT ![activityId] =
                        IF outcome = "force_continue" THEN "completed"
                        ELSE "pivoted"]
    /\ UNCHANGED <<activities, hdCurrentActivity, hostCalls, hostSent, lastResponse,
                   srvRisk>>
    /\ UNCHANGED offlineVars
    /\ UNCHANGED monitorVars
    /\ UNCHANGED submitVars
    /\ UNCHANGED laterVars

HostNext ==
    \/ fetchActivities
    \/ fetchCurrentActivity
    \/ \E a \in Activities : startActivity(a)
    \/ \E a \in Activities : completeActivity(a)
    \/ \E call \in BagToSet(hostCalls) : statusResponse(call)
    \/ \E a \in Activities, st \in Statuses : updateActivityStatus(a, st)
    \/ \E tier \in RiskTiers : riskChanges(tier)
    \/ \E a \in Activities : consensusTriggered(a)
    \/ \E a \in Activities, o \in HostDecisions : hostDecision(a, o)

(***************************************************************************)
(* ActivityOptimization: the AI preview and the AI pivot.                  *)
(***************************************************************************)
MaxPreviewCalls == 2

\* The pending activities a fetch can return, by title.
PendingLists == {<<>>, <<"hike">>, <<"museum", "hike">>}

\* The feedback summaries a fetch can return: average_scores missing or
\* present.
FeedbackSummaries == {[average_scores |-> <<>>], [average_scores |-> <<7>>]}

\* currentFeedback.average_scores?.tired || 3
OrThree(summary) ==
    IF summary.average_scores = <<>> THEN 3 ELSE summary.average_scores[1]

LocalStrategy == "Local Analysis Preview"

\* What the pivot engine answers when it answers.
ProviderResults ==
    {[strategy_used |-> "AI Pivot", activity |-> t] : t \in {"rest", "hike"}}

\* How a pivot request can end: an OK response, an OK response whose body
\* cannot be read, a response that is not OK, a network error.
PreviewOutcomes == {"ok", "bad_json", "http_error", "network"}

PreviewInit ==
    /\ pendingActivities = <<>>
    /\ aoCurrentFeedback = <<>>
    /\ aiAnalysis = <<>>
    /\ userLocation = 0
    /\ isOptimizing = FALSE
    /\ optimizationResults = <<>>
    /\ previewCalls = EmptyBag
    /\ lastPreview = <<>>

\* ActivityOptimization not mounted.
PreviewIdle ==
    /\ pendingActivities = <<>>
    /\ aoCurrentFeedback = <<>>
    /\ aiAnalysis = <<>>
    /\ userLocation = 0
    /\ isOptimizing = FALSE
    /\ optimizationResults = <<>>
    /\ previewCalls = EmptyBag
    /\ lastPreview = <<>>

\* fetchActivities of ActivityOptimization: the pending activities are kept.
aoFetchActivities(pending) ==
    /\ pendingActivities # pending
    /\ pendingActivities' = pending
    /\ UNCHANGED <<aoCurrentFeedback, aiAnalysis, userLocation, isOptimizing,
                   optimizationResults, previewCalls, lastPreview>>
    /\ UNCHANGED PreviewOthers

\* fetchCurrentFeedback: the feedback of the most recent activity is kept.
fetchCurrentFeedback(data) ==
    /\ aoCurrentFeedback # <<data>>
    /\ aoCurrentFeedback' = <<data>>
    /\ UNCHANGED <<pendingActivities, aiAnalysis, userLocation, isOptimizing,
                   optimizationResults, previewCalls, lastPreview>>
    /\ UNCHANGED PreviewOthers

\* loadUserLocation: the position found, or the default one.
loadUserLocation(lat) ==
    /\ userLocation # lat
    /\ userLocation' = lat
    /\ UNCHANGED <<pendingActivities, aoCurrentFeedback, aiAnalysis,
                   isOptimizing, optimizationResults, previewCalls, lastPreview>>
    /\ UNCHANGED PreviewOthers

PivotCall(decision, title) == [decision |-> decision, title |-> title]

\* triggerAIPivot up to its await.
triggerAIPivot ==
    /\ ~isOptimizing
    /\ aoCurrentFeedback # <<>>
    /\ userLocation # 0
    /\ BagCardinality(previewCalls) < MaxPreviewCalls
    /\ isOptimizing' = TRUE
    /\ previewCalls' = previewCalls (+) SetToBag({PivotCall("PIVOT_WITH_AI", "")})
    /\ UNCHANGED <<pendingActivities, aoCurrentFeedback, aiAnalysis,
                   userLocation, optimizationResults, lastPreview>>
    /\ UNCHANGED PreviewOthers

\* triggerAIPivot after its await: an OK result is kept and the activities
\* are fetched again; anything else is only notified.
triggerAIPivotSettled(call, outcome, result, pending) ==
    /\ call.decision = "PIVOT_WITH_AI"
    /\ previewCalls' = previewCalls (-) SetToBag({call})
    /\ isOptimizing' = FALSE
    /\ IF outcome = "ok"
       THEN /\ optimizationResults' = <<result>>
            /\ pendingActivities' = pending
       ELSE UNCHANGED <<optimizationResults, pendingActivities>>
    /\ UNCHANGED <<aoCurrentFeedback, aiAnalysis, userLocation, lastPreview>>
    /\ UNCHANGED PreviewOthers

\* generateAIPreview up to its await; the fallback it may call later sees
\* the pending activities of this render.
generateAIPreview ==
    /\ aoCurrentFeedback # <<>>
    /\ Len(pendingActivities) # 0
    /\ BagCardinality(previewCalls) < MaxPreviewCalls
    /\ previewCalls' = previewCalls (+)
                          SetToBag({PivotCall("PREVIEW_PIVOT", pendingActivities[1])})
    /\ UNCHANGED <<pendingActivities, aoCurrentFeedback, aiAnalysis,
                   userLocation, isOptimizing, optimizationResults, lastPreview>>
    /\ UNCHANGED PreviewOthers

\* generateLocalAIPreview: the analysis made locally (the feedback passed in
\* is not read).
generateLocalAIPreview(feedbackData, title) ==
    [strategy_used |-> LocalStrategy, activity |-> title]

\* The catch block of generateAIPreview is reached.
PreviewCaught(outcome) == outcome \in {"network", "bad_json"}

\* generateAIPreview after its await: an OK result is shown, a thrown error
\* falls back to the local analysis, a response that is not OK does nothing.
generateAIPreviewSettled(call, outcome, result) ==
    /\ call.decision = "PREVIEW_PIVOT"
    /\ previewCalls' = previewCalls (-) SetToBag({call})
    /\ lastPreview' = <<outcome>>
    /\ aiAnalysis' =
          IF outcome = "ok" THEN <<result>>
          ELSE IF PreviewCaught(outcome)
               THEN <<generateLocalAIPreview(OrThree(aoCurrentFeedback[1]),
                                             call.title)>>
               ELSE aiAnalysis
    /\ UNCHANGED <<pendingActivities, aoCurrentFeedback, userLocation,
                   isOptimizing, optimizationResults>>
    /\ UNCHANGED PreviewOthers

PreviewNext ==
    \/ \E pending \in PendingLists : aoFetchActivities(pending)
    \/ \E data \in FeedbackSummaries : fetchCurrentFeedback(data)
    \/ \E lat \in {40} : loadUserLocation(lat)
    \/ triggerAIPivot
    \/ \E call \in BagToSet(previewCalls), o \in PreviewOutcomes :
          \E r \in ProviderResults, pending \in PendingLists :
              triggerAIPivotSettled(call, o, r, pending)
    \/ generateAIPreview
    \/ \E call \in BagToSet(previewCalls), o \in PreviewOutcomes :
          \E r \in ProviderResults : generateAIPreviewSettled(call, o, r)

(***************************************************************************)
(* SocketService: broadcastToTrip and its listeners.  A broadcast is       *)
(* dispatched synchronously, so a callback that broadcasts runs the inner  *)
(* dispatch to its end before the outer one goes on.                       *)
(***************************************************************************)
MaxBroadcasts == 2

\* The calls dispatched when listeners of two trips are registered.
MaxDispatches == 1

Callbacks == {"l1", "l2", "l3"}

\* The callbacks registered where the order of the calls is looked at.
AnsweringCallbacks == {"l1", "l2"}

\* Whether a callback throws when it is called: "l1" does.
Throws(callback) == callback = "l1"

\* The trips whose events have listeners: the event of trip t is `trip_${t}`.
Trips == {1, 2}

\* The messages: a callback that rebroadcasts answers a "question" with an
\* "answer".
Question == "question"
Answer == "answer"

\* The dispatch state threaded through the calls.
Dispatch(calls, to, rec) == [calls |-> calls, to |-> to, rec |-> rec]

\* What a broadcastToTrip call found: the trip and its listeners.
Found(tripId) ==
    [trip |-> tripId, listeners |-> eventListeners[tripId]]

\* A forEach without the try: a callback that throws ends it.
ThrowEndsForEach(l, i, n) == IF l \in throwing THEN n + 1 ELSE i + 1

\* try { callback(data) } catch (error) { console.error(...) }: whether the
\* i-th callback returned or threw, forEach goes on with the next one.
AfterCallback(l, i, n) == i + 1

RECURSIVE broadcastToTrip(_, _, _), triggerEventListeners(_, _, _, _, _)

\* triggerEventListeners from the i-th callback on: the callback is handed
\* the call, runs (and may broadcast, and may throw at its end), then the
\* next one is called.
triggerEventListeners(d, tripId, call, message, i) ==
    IF i > Len(eventListeners[tripId]) THEN d
    ELSE LET l == eventListeners[tripId][i]
             handed == Dispatch(d.calls, d.to,
                                [d.rec EXCEPT ![l] = Append(@, call)])
             after == IF l \in rebroadcasts /\ message = Question
                      THEN broadcastToTrip(handed, tripId, Answer)
                      ELSE handed
         IN  triggerEventListeners(after, tripId, call, message,
                 AfterCallback(l, i, Len(eventListeners[tripId])))

\* broadcastToTrip: the call is numbered in call order and dispatched to the
\* listeners of the trip's event.
broadcastToTrip(d, tripId, message) ==
    LET calls == Append(d.calls, message)
        to == Append(d.to, Found(tripId))
    IN  triggerEventListeners(Dispatch(calls, to, d.rec), tripId,
                              Len(calls), message, 1)

BroadcastInit ==
    /\ eventListeners = [t \in Trips |-> <<>>]
    /\ rebroadcasts = {}
    /\ throwing = {}
    /\ broadcastCalls = <<>>
    /\ dispatched = <<>>
    /\ received = [l \in Callbacks |-> <<>>]

\* The SocketService unused.
BroadcastIdle ==
    /\ eventListeners = [t \in Trips |-> <<>>]
    /\ rebroadcasts = {}
    /\ throwing = {}
    /\ broadcastCalls = <<>>
    /\ dispatched = <<>>
    /\ received = [l \in Callbacks |-> <<>>]

\* A callback is registered for no event.
Unregistered(callback) ==
    \A t \in Trips : callback \notin Range(eventListeners[t])

\* addEventListener: a Set keeps a callback once, in insertion order.  What
\* the callback does when it is called is fixed when it is first registered.
addEventListener(tripId, callback, reentrant, throws) ==
    /\ callback \notin Range(eventListeners[tripId])
    /\ eventListeners' =
           [eventListeners EXCEPT ![tripId] = Append(@, callback)]
    /\ IF Unregistered(callback)
       THEN /\ rebroadcasts' = rebroadcasts \cup
                                   (IF reentrant THEN {callback} ELSE {})
            /\ throwing' = throwing \cup (IF throws THEN {callback} ELSE {})
       ELSE /\ reentrant = (callback \in rebroadcasts)
            /\ throws = (callback \in throwing)
            /\ UNCHANGED <<rebroadcasts, throwing>>
    /\ UNCHANGED <<broadcastCalls, dispatched, received>>
    /\ UNCHANGED BroadcastOthers

\* removeEventListener (or the cleanup addEventListener returned).  What a
\* callback does is forgotten once no event has it.
removeEventListener(tripId, callback) ==
    /\ callback \in Range(eventListeners[tripId])
    /\ eventListeners' =
           [eventListeners EXCEPT
               ![tripId] = SelectSeq(@, LAMBDA l : l # callback)]
    /\ LET forgotten == IF \A t \in Trips \ {tripId} :
                         callback \notin Range(eventListeners[t])
                   THEN {callback} ELSE {}
       IN  /\ rebroadcasts' = rebroadcasts \ forgotten
           /\ throwing' = throwing \ forgotten
    /\ UNCHANGED <<broadcastCalls, dispatched, received>>
    /\ UNCHANGED BroadcastOthers

\* A broadcastToTrip call from outside any callback.
broadcast(limit, tripId, message) ==
    /\ Len(broadcastCalls) < limit
    /\ LET d == broadcastToTrip(Dispatch(broadcastCalls, dispatched, received),
                                tripId, message)
       IN  /\ broadcastCalls' = d.calls
           /\ dispatched' = d.to
           /\ received' = d.rec
    /\ UNCHANGED <<eventListeners, rebroadcasts, throwing>>
    /\ UNCHANGED BroadcastOthers

BroadcastNext ==
    \/ \E l \in AnsweringCallbacks, r \in BOOLEAN :
          addEventListener(1, l, r, FALSE)
    \/ \E l \in AnsweringCallbacks : removeEventListener(1, l)
    \/ \E m \in {Question, Answer} : broadcast(MaxBroadcasts, 1, m)

\* Listeners of two trips, one of which may throw.
ListenersNext ==
    \/ \E t \in Trips, l \in Callbacks :
          addEventListener(t, l, FALSE, Throws(l))
    \/ \E t \in Trips, l \in Callbacks : removeEventListener(t, l)
    \/ \E t \in Trips : broadcast(MaxDispatches, t, Question)

(***************************************************************************)
(* The useWebSocket hook.  connect is memoised on (tripId, userId,         *)
(* username), so every socket's onmessage calls the handleMessage of the   *)
(* first render, whose currentActivity is the initial null.                *)
(***************************************************************************)
MaxSockets == 2
MaxRecent == 1
MaxStray == 1
MaxPings == 1

MAX_RECONNECT_ATTEMPTS == 5
KeptFeedback == 9

\* The hook's own userId.
UserId == "u1"

\* The users the roster messages are about.
RosterUsers == {"u1", "u2", "u3"}

Live == {"connecting", "open"}

\* A socket object that no handler will be called for any more.
Gone == {"none", "closed"}

\* connectionStatus: the text, and k of `reconnecting (k/5)`.
Status(text) == <<text, 0>>
Reconnecting(k) == <<"reconnecting", k>>

\* new WebSocket(wsUrl): the first free place for a socket object.
NewSocket == CHOOSE n \in 1..MaxSockets :
                 /\ socketStates[n] \in Gone
                 /\ \A k \in 1..MaxSockets : socketStates[k] \in Gone => n <= k

SocketInit ==
    /\ socketStates = [n \in 1..MaxSockets |-> "none"]
    /\ socketRef = 0
    /\ reconnectTimer = FALSE
    /\ reconnectAttempts = 0
    /\ wsCurrentActivity = <<>>
    /\ lastMessage = <<>>
    /\ recentFeedback = <<>>
    /\ wsSent = {}
    /\ connectionStatus = Status("disconnected")
    /\ isConnected = FALSE
    /\ heartbeatRef = FALSE
    /\ strayTimers = 0
    /\ strayHeartbeats = 0
    /\ pings = 0
    /\ participants = <<>>
    /\ constructorThrows \in BOOLEAN
    /\ afterDisconnect = FALSE
    /\ rosterEvents = [u \in RosterUsers |-> "none"]

\* The hook not used.
SocketIdle ==
    /\ socketStates = [n \in 1..MaxSockets |-> "none"]
    /\ socketRef = 0
    /\ reconnectTimer = FALSE
    /\ reconnectAttempts = 0
    /\ wsCurrentActivity = <<>>
    /\ lastMessage = <<>>
    /\ recentFeedback = <<>>
    /\ wsSent = {}
    /\ connectionStatus = Status("disconnected")
    /\ isConnected = FALSE
    /\ heartbeatRef = FALSE
    /\ strayTimers = 0
    /\ strayHeartbeats = 0
    /\ pings = 0
    /\ participants = <<>>
    /\ constructorThrows = FALSE
    /\ afterDisconnect = FALSE
    /\ rosterEvents = [u \in RosterUsers |-> "none"]

\* What the handlers of the connection leave alone.
messageVars == <<wsCurrentActivity, lastMessage, recentFeedback, wsSent, pings,
                 participants, rosterEvents>>

\* reconnectAttemptsRef.current += 2
AttemptSkipped(n) == n + 2

\* reconnectAttemptsRef.current += 1
NextAttempt(n) == n + 1

\* scheduleReconnect: 'failed' once the attempts are used up, otherwise one
\* more attempt and a timer.  `timer` and `strays` are the timers pending
\* when it is called: the one reconnectTimeoutRef holds is not cleared, it
\* is only forgotten.
scheduleReconnect(timer, strays) ==
    IF reconnectAttempts >= MAX_RECONNECT_ATTEMPTS
    THEN /\ connectionStatus' = Status("failed")
         /\ reconnectTimer' = timer
         /\ strayTimers' = strays
         /\ UNCHANGED reconnectAttempts
    ELSE /\ reconnectAttempts' = NextAttempt(reconnectAttempts)
         /\ connectionStatus' = Reconnecting(NextAttempt(reconnectAttempts))
         /\ reconnectTimer' = TRUE
         /\ timer => strays < MaxStray
         /\ strayTimers' = IF timer THEN strays + 1 ELSE strays

\* The body of connect: nothing when the current socket is open; otherwise
\* 'connecting' and a new socket takes the reference, the previous one left
\* as it is; if the constructor throws (it does for a URL it rejects, every
\* time), 'error' and scheduleReconnect.
connectBody(timer, strays) ==
    IF socketRef # 0 /\ socketStates[socketRef] = "open"
    THEN /\ reconnectTimer' = timer
         /\ strayTimers' = strays
         /\ UNCHANGED <<socketStates, socketRef, connectionStatus,
                        reconnectAttempts>>
    ELSE IF constructorThrows
    THEN /\ scheduleReconnect(timer, strays)
         /\ UNCHANGED <<socketStates, socketRef>>
    ELSE /\ \E n \in 1..MaxSockets : socketStates[n] \in Gone
         /\ socketStates' = [socketStates EXCEPT ![NewSocket] = "connecting"]
         /\ socketRef' = NewSocket
         /\ connectionStatus' = Status("connecting")
         /\ reconnectTimer' = timer
         /\ strayTimers' = strays
         /\ UNCHANGED reconnectAttempts

\* connect called by the mount effect or by the component using the hook.
connect ==
    /\ connectBody(reconnectTimer, strayTimers)
    /\ afterDisconnect' = FALSE
    /\ UNCHANGED <<isConnected, heartbeatRef, strayHeartbeats, constructorThrows>>
    /\ UNCHANGED messageVars
    /\ UNCHANGED SocketOthers

\* A timer set by scheduleReconnect fires: connect.  The timer is the one
\* reconnectTimeoutRef holds, or an earlier one that was never cleared.
reconnect(stray) ==
    /\ IF stray THEN strayTimers > 0 ELSE reconnectTimer
    /\ connectBody(IF stray THEN reconnectTimer ELSE FALSE,
                   IF stray THEN strayTimers - 1 ELSE strayTimers)
    /\ UNCHANGED <<isConnected, heartbeatRef, strayHeartbeats, afterDisconnect,
                   constructorThrows>>
    /\ UNCHANGED messageVars
    /\ UNCHANGED SocketOthers

\* socket.onopen: connected, the attempts reset, a heartbeat interval
\* started; the interval heartbeatIntervalRef held, if any, keeps running.
onopen(n) ==
    /\ socketStates[n] = "connecting"
    /\ socketStates' = [socketStates EXCEPT ![n] = "open"]
    /\ isConnected' = TRUE
    /\ connectionStatus' = Status("connected")
    /\ reconnectAttempts' = 0
    /\ heartbeatRef' = TRUE
    /\ IF heartbeatRef
       THEN /\ strayHeartbeats < MaxStray
            /\ strayHeartbeats' = strayHeartbeats + 1
       ELSE UNCHANGED strayHeartbeats
    /\ UNCHANGED <<socketRef, reconnectTimer, strayTimers, constructorThrows,
                   afterDisconnect>>
    /\ UNCHANGED messageVars
    /\ UNCHANGED SocketOthers

\* The close codes a socket in this state can end with: 1000 (clean) only
\* after an open connection.
CanCloseClean(state) == state \in {"open", "closing"}

\* socket.onclose: disconnected, the referenced heartbeat cleared; unless the
\* close was clean (code 1000), scheduleReconnect while attempts remain.  When
\* the connection failed, socket.onerror runs in the same task just before:
\* the 'error' it sets is replaced here.
onclose(n, clean) ==
    /\ socketStates[n] \in {"connecting", "open", "closing", "aborting"}
    /\ clean => CanCloseClean(socketStates[n])
    /\ socketStates' = [socketStates EXCEPT ![n] = "closed"]
    /\ isConnected' = FALSE
    /\ heartbeatRef' = FALSE
    /\ IF ~clean /\ reconnectAttempts < MAX_RECONNECT_ATTEMPTS
       THEN scheduleReconnect(reconnectTimer, strayTimers)
       ELSE /\ connectionStatus' = Status("disconnected")
            /\ UNCHANGED <<reconnectAttempts, reconnectTimer, strayTimers>>
    /\ UNCHANGED <<socketRef, strayHeartbeats, constructorThrows, afterDisconnect>>
    /\ UNCHANGED messageVars
    /\ UNCHANGED SocketOthers

\* socket.close(1000, ...): an open socket starts its closing handshake, a
\* connecting one is aborted; the close event comes later.
CloseCalled(state) ==
    CASE state = "open" -> "closing"
      [] state = "connecting" -> "aborting"
      [] OTHER -> state

\* disconnect: the referenced timer and interval are cleared and the
\* referenced socket is closed with code 1000.
disconnect ==
    /\ reconnectTimer' = FALSE
    /\ heartbeatRef' = FALSE
    /\ socketStates' = IF socketRef # 0
                       THEN [socketStates EXCEPT
                                ![socketRef] = CloseCalled(socketStates[socketRef])]
                       ELSE socketStates
    /\ socketRef' = 0
    /\ isConnected' = FALSE
    /\ connectionStatus' = Status("disconnected")
    /\ afterDisconnect' = TRUE
    /\ UNCHANGED <<strayTimers, reconnectAttempts, strayHeartbeats, constructorThrows>>
    /\ UNCHANGED messageVars
    /\ UNCHANGED SocketOthers

\* A heartbeat interval ticks: sendMessage({type: 'ping'}), which sends only
\* through a referenced socket that is open.
heartbeatTick ==
    /\ heartbeatRef \/ strayHeartbeats > 0
    /\ socketRef # 0 /\ socketStates[socketRef] = "open"
    /\ pings < MaxPings
    /\ pings' = pings + 1
    /\ UNCHANGED <<socketStates, socketRef, reconnectTimer, strayTimers,
                   reconnectAttempts, connectionStatus, isConnected, heartbeatRef,
                   strayHeartbeats, constructorThrows, afterDisconnect>>
    /\ UNCHANGED <<wsCurrentActivity, lastMessage, recentFeedback, wsSent,
                   participants, rosterEvents>>
    /\ UNCHANGED SocketOthers

\* A message of the server; the fields a type does not use are empty.
Message(type, activity_id, new_status, current_activity, user_id, preview) ==
    [type |-> type, activity_id |-> activity_id, new_status |-> new_status,
     current_activity |-> current_activity, user_id |-> user_id,
     feedback_preview |-> preview, active_participants |-> <<>>]

ActivityState(activity_id, status) ==
    [activity_id |-> activity_id, status |-> status]

\* Category values and whose they are: a participant's own, or the
\* aggregate of all.
Values(of, tired) == [of |-> of, tired |-> tired]

StatusTypes == {"activity_status_updated", "activity_status_live_change"}
FeedbackTypes == {"feedback_received", "feedback_live_update"}
RosterTypes == {"participant_joined", "participant_left"}

ServerMessages ==
    {Message("initial_data", "", "", c, "", <<>>) :
        c \in {<<>>} \cup {<<ActivityState(a, "active")>> : a \in Activities}}
    \cup {Message(t, a, "completed", <<>>, "", <<>>) :
             t \in StatusTypes, a \in Activities \cup {"undefined"}}
    \cup {Message("feedback_received", "", "", <<>>, UserId, p) :
             p \in {<<>>, <<Values(UserId, 8)>>, <<Values("all", 6)>>}}

\* An entry of the participants list.
Participant(user_id) == [user_id |-> user_id, connected |-> TRUE]

\* The rosters initial_data carries: no user twice.
Rosters == {<<>>, <<Participant("u1")>>, <<Participant("u3"), Participant("u2")>>,
            <<Participant("u1"), Participant("u2"), Participant("u3")>>}

RosterMessages ==
    {[Message("initial_data", "", "", <<>>, "", <<>>)
         EXCEPT !.active_participants = r] : r \in Rosters}
    \cup {Message(t, "", "", <<>>, u, <<>>) : t \in RosterTypes, u \in RosterUsers}

ConnectionMessages == {Message("connection_established", "", "", <<>>, "", <<>>)}

\* currentActivity?.activity_id
ActivityIdOf(activity) ==
    IF activity = <<>> THEN "undefined" ELSE activity[1].activity_id

\* The currentActivity that handleMessage reads: the one of the render that
\* created connect.
HandlerActivity == <<>>

NeverExists(prev, user_id) == FALSE

\* prev.find(p => p.user_id === message.user_id)
Exists(prev, user_id) == \E i \in 1..Len(prev) : prev[i].user_id = user_id

\* The last roster event about each user after `message`.
RosterEventsAfter(message) ==
    CASE message.type = "initial_data" ->
             [u \in RosterUsers |->
                 IF \E i \in 1..Len(message.active_participants) :
                        message.active_participants[i].user_id = u
                 THEN "initial" ELSE "none"]
      [] message.type = "participant_joined" ->
             [rosterEvents EXCEPT ![message.user_id] = "joined"]
      [] message.type = "participant_left" ->
             [rosterEvents EXCEPT ![message.user_id] = "left"]
      [] OTHER -> rosterEvents

\* handleMessage, called by the onmessage of any socket that is open.
handleMessage(n, message) ==
    /\ socketStates[n] = "open"
    /\ lastMessage' = <<message>>
    /\ rosterEvents' = RosterEventsAfter(message)
    /\ connectionStatus' = IF message.type = "connection_established"
                           THEN Status("connected") ELSE connectionStatus
    /\ CASE message.type = "initial_data" ->
              /\ wsCurrentActivity' = message.current_activity
              /\ recentFeedback' = <<>>
              /\ participants' = message.active_participants
         [] message.type = "participant_joined" ->
              /\ participants' =
                    IF Exists(participants, message.user_id) THEN participants
                    ELSE Append(participants, Participant(message.user_id))
              /\ UNCHANGED <<wsCurrentActivity, recentFeedback>>
         [] message.type = "participant_left" ->
              /\ participants' =
                    SelectSeq(participants,
                              LAMBDA p : p.user_id # message.user_id)
              /\ UNCHANGED <<wsCurrentActivity, recentFeedback>>
         [] message.type \in FeedbackTypes ->
              /\ message.feedback_preview # <<>> => Len(recentFeedback) < MaxRecent
              /\ recentFeedback' =
                    IF message.feedback_preview # <<>>
                    THEN <<[user_id |-> message.user_id,
                            feedback_preview |-> message.feedback_preview[1]]>>
                         \o SubSeq(recentFeedback, 1,
                                   IF Len(recentFeedback) < KeptFeedback
                                   THEN Len(recentFeedback) ELSE KeptFeedback)
                    ELSE recentFeedback
              /\ UNCHANGED <<wsCurrentActivity, participants>>
         [] message.type \in StatusTypes ->
              /\ wsCurrentActivity' =
                    IF message.activity_id = ActivityIdOf(HandlerActivity)
                    THEN <<ActivityState(ActivityIdOf(wsCurrentActivity),
                                         message.new_status)>>
                    ELSE wsCurrentActivity
              /\ UNCHANGED <<recentFeedback, participants>>
         [] OTHER ->
              UNCHANGED <<wsCurrentActivity, recentFeedback, participants>>
    /\ UNCHANGED <<socketStates, socketRef, reconnectTimer, strayTimers,
                   reconnectAttempts, isConnected, heartbeatRef, strayHeartbeats,
                   constructorThrows, afterDisconnect, wsSent, pings>>
    /\ UNCHANGED SocketOthers

\* submitFeedback of the hook: the participant's values are sent with the
\* participant's id, if the referenced socket is open.
socketSubmitFeedback(feedbackData) ==
    /\ socketRef # 0
    /\ socketStates[socketRef] = "open"
    /\ wsSent' = wsSent \cup {[type |-> "feedback_update", user_id |-> UserId,
                              feedback_data |-> feedbackData]}
    /\ UNCHANGED <<socketStates, socketRef, reconnectTimer, strayTimers,
                   reconnectAttempts, connectionStatus, isConnected, heartbeatRef,
                   strayHeartbeats, constructorThrows, afterDisconnect>>
    /\ UNCHANGED <<wsCurrentActivity, lastMessage, recentFeedback, pings,
                   participants, rosterEvents>>
    /\ UNCHANGED SocketOthers

\* The steps of the connection.
ConnectionSteps ==
    \/ connect
    \/ \E stray \in BOOLEAN : reconnect(stray)
    \/ \E n \in 1..MaxSockets : onopen(n)
    \/ \E n \in 1..MaxSockets, clean \in BOOLEAN : onclose(n, clean)
    \/ disconnect
    \/ heartbeatTick

\* The messages and the submissions, over connections that open and are
\* closed with code 1000; failing connections are left to ConnectionNext.
SocketNext ==
    \/ connect
    \/ \E n \in 1..MaxSockets : onopen(n)
    \/ \E n \in 1..MaxSockets : onclose(n, TRUE)
    \/ disconnect
    \/ \E n \in 1..MaxSockets, m \in ServerMessages : handleMessage(n, m)
    \/ \E v \in {3, 8} : socketSubmitFeedback(Values(UserId, v))

\* The connection alone, through MAX_RECONNECT_ATTEMPTS reconnections.
ConnectionNext ==
    \/ ConnectionSteps
    \/ \E n \in 1..MaxSockets, m \in ConnectionMessages : handleMessage(n, m)

\* The roster messages on one connection.
RosterNext ==
    \/ connect
    \/ \E n \in 1..MaxSockets : onopen(n)
    \/ \E n \in 1..MaxSockets, m \in RosterMessages : handleMessage(n, m)

(***************************************************************************)
(* VotingInterface: the response rate shown in the header.                 *)
(***************************************************************************)
MaxParticipants == 8

\* Math.round(x) for x = num / den >= 0: the nearest integer, halves go up.
MathRound(num, den) == (2 * num + den) \div (2 * den)

\* getResponseRate: 0 without participants, otherwise the rounded percentage.
getResponseRate(responded, count) ==
    IF count = 0 THEN 0 ELSE MathRound(responded * 100, count)

\* getStatusMessage for a participant who has not submitted.
getStatusMessage(responded, count) ==
    LET responseRate == getResponseRate(responded, count)
    IN  IF responseRate = 100 THEN [type |-> "complete", icon |-> "party"]
        ELSE IF responseRate > 0 THEN [type |-> "waiting", icon |-> "hourglass"]
        ELSE [type |-> "waiting", icon |-> "wave"]

RateInit ==
    /\ participantCount \in 0..MaxParticipants
    /\ respondedParticipants \in 0..MaxParticipants
    /\ shownRate = <<>>
    /\ statusMessage = <<>>

RateIdle ==
    /\ participantCount = 0
    /\ respondedParticipants = 0
    /\ shownRate = <<>>
    /\ statusMessage = <<>>

\* The header renders {getResponseRate()}%.
renderResponseRate ==
    /\ shownRate' = <<getResponseRate(respondedParticipants, participantCount)>>
    /\ UNCHANGED <<participantCount, respondedParticipants, statusMessage>>
    /\ UNCHANGED RateOthers

\* const statusMessage = getStatusMessage().
renderStatusMessage ==
    /\ statusMessage' = <<getStatusMessage(respondedParticipants, participantCount)>>
    /\ UNCHANGED <<participantCount, respondedParticipants, shownRate>>
    /\ UNCHANGED RateOthers

RateNext ==
    \/ renderResponseRate
    \/ renderStatusMessage

(***************************************************************************)
(* feedbackUtils: the severity tier of one category's value.               *)
(***************************************************************************)
SeverityTiers == {"EXCELLENT", "LOW", "MODERATE", "HIGH", "CRITICAL"}

\* FEEDBACK_CATEGORIES[categoryKey].inverseScale
inverseScale(categoryKey) == categoryKey \in {"energetic", "adventurous"}

calculateSeverity(value, categoryKey) ==
    IF value[1] # "number" \/ value[2] < 1 \/ value[2] > 10 THEN "MODERATE"
    ELSE IF categoryKey \notin Categories THEN "MODERATE"
    ELSE IF inverseScale(categoryKey)
    THEN IF value[2] <= 2 THEN "CRITICAL"
         ELSE IF value[2] <= 3 THEN "HIGH"
         ELSE IF value[2] <= 5 THEN "MODERATE"
         ELSE IF value[2] <= 7 THEN "LOW"
         ELSE "EXCELLENT"
    ELSE IF value[2] >= 9 THEN "CRITICAL"
         ELSE IF value[2] >= 7 THEN "HIGH"
         ELSE IF value[2] >= 5 THEN "MODERATE"
         ELSE IF value[2] >= 3 THEN "LOW"
         ELSE "EXCELLENT"

\* The values handed to calculateSeverity: the integers around 1..10 and a
\* value that is not a number.
SeverityInputs == {Num(n) : n \in 0..11} \cup {Undefined}

\* One value for the lower-is-worse categories, one for the others.
SeverityInit ==
    /\ \E low \in SeverityInputs, high \in SeverityInputs :
         averages = [c \in Categories |-> IF inverseScale(c) THEN low ELSE high]
    /\ severities = [c \in Categories |-> <<>>]

SeverityIdle ==
    /\ averages = [c \in Categories |-> Num(5)]
    /\ severities = [c \in Categories |-> <<>>]

\* const severity = data.severity || calculateSeverity(data.average, categoryKey)
\* for a category whose data carries no severity.
categorySeverity(categoryKey) ==
    /\ severities' = [severities EXCEPT ![categoryKey] =
                         <<calculateSeverity(averages[categoryKey], categoryKey)>>]
    /\ UNCHANGED averages
    /\ UNCHANGED SeverityOthers

SeverityNext == \E c \in Categories : categorySeverity(c)

(***************************************************************************)
(* getOverallRiskLevel of the useFeedback hook and of TripDiscovery.       *)
(***************************************************************************)
\* A category whose data has no severity (undefined).
Missing == "undefined"

\* riskWeights counted from 0
riskWeightsFromZero(sev) ==
    CASE sev = "CRITICAL" -> 4
      [] sev = "HIGH" -> 3
      [] sev = "MODERATE" -> 2
      [] sev = "LOW" -> 1
      [] sev = "EXCELLENT" -> 0
      [] OTHER -> 3

\* riskWeights[sev] || 3
riskWeights(sev) ==
    CASE sev = "CRITICAL" -> 5
      [] sev = "HIGH" -> 4
      [] sev = "MODERATE" -> 3
      [] sev = "LOW" -> 2
      [] sev = "EXCELLENT" -> 1
      [] OTHER -> 3

\* The categories in the order both functions list them.
CategoryOrder == <<"tired", "energetic", "sick", "hungry", "adventurous">>

RECURSIVE SumWeights(_)
\* severities.reduce((sum, sev) => sum + (riskWeights[sev] || 3), 0)
SumWeights(sevs) ==
    IF sevs = <<>> THEN 0
    ELSE riskWeights(Head(sevs)) + SumWeights(Tail(sevs))

\* The tier of avgRisk = sum / count; avgRisk >= 4.5 is 2 * sum >= 9 * count.
RiskOfAverage(sum, count) ==
    IF 2 * sum >= 9 * count THEN "CRITICAL"
    ELSE IF 2 * sum >= 7 * count THEN "HIGH"
    ELSE IF 2 * sum >= 5 * count THEN "MODERATE"
    ELSE IF 2 * sum >= 3 * count THEN "LOW"
    ELSE "EXCELLENT"

\* useFeedback: the severities that are there (.filter(Boolean)); UNKNOWN
\* when there is none.
getOverallRiskLevel(data) ==
    LET sevs == SelectSeq([i \in 1..5 |-> data[CategoryOrder[i]]],
                          LAMBDA sev : sev # Missing)
    IN  IF sevs = <<>> THEN "UNKNOWN"
        ELSE RiskOfAverage(SumWeights(sevs), Len(sevs))

\* TripDiscovery: every category counts, a missing severity weighs 3.
discoveryOverallRiskLevel(data) ==
    LET sevs == [i \in 1..5 |-> data[CategoryOrder[i]]]
    IN  RiskOfAverage(SumWeights(sevs), Len(sevs))

RiskInit ==
    /\ feedbackSeverities \in [Categories -> SeverityTiers \cup {Missing}]
    /\ hookRisk = <<>>
    /\ discoveryRisk = <<>>

RiskIdle ==
    /\ feedbackSeverities = [c \in Categories |-> Missing]
    /\ hookRisk = <<>>
    /\ discoveryRisk = <<>>

hookOverallRisk ==
    /\ hookRisk' = <<getOverallRiskLevel(feedbackSeverities)>>
    /\ UNCHANGED <<feedbackSeverities, discoveryRisk>>
    /\ UNCHANGED RiskOthers

\* const overallRisk = getOverallRiskLevel() in TripDiscovery.
discoveryOverallRisk ==
    /\ discoveryRisk' = <<discoveryOverallRiskLevel(feedbackSeverities)>>
    /\ UNCHANGED <<feedbackSeverities, hookRisk>>
    /\ UNCHANGED RiskOthers

RiskNext ==
    \/ hookOverallRisk
    \/ discoveryOverallRisk

(***************************************************************************)
(* feedbackUtils: calculateWeightedAverage(feedbackData, weights).         *)
(***************************************************************************)
\* The largest weight configured and the averages the categories have.
MaxWeight == 3
AverageInputs == {Undefined, Num(2), Num(8)}
WeightInputs == {Undefined, Num(0), Num(MaxWeight)}

\* weights[categoryKey] taken as it is configured, 1 when there is none
WeightAsConfigured(weight) == IF weight = Undefined THEN 1 ELSE weight[2]

\* weights[categoryKey] || 1: 1 for a weight that is missing and for 0
WeightOrOne(weight) ==
    IF weight = Undefined \/ weight[2] = 0 THEN 1 ELSE weight[2]

\* inverseScale ? (11 - data.average) : data.average
AdjustedValue(categoryKey, average) ==
    IF inverseScale(categoryKey) THEN 11 - average ELSE average

\* The sums over the categories from the i-th on: only a category with a
\* numeric average counts.
RECURSIVE WeightedTotals(_, _, _)
WeightedTotals(data, w, i) ==
    IF i > Len(CategoryOrder) THEN [score |-> 0, weight |-> 0]
    ELSE LET categoryKey == CategoryOrder[i]
             rest == WeightedTotals(data, w, i + 1)
         IN  IF data[categoryKey] = Undefined THEN rest
             ELSE LET weight == WeightOrOne(w[categoryKey])
                      adjusted ==
                          AdjustedValue(categoryKey, data[categoryKey][2])
                  IN  [score |-> rest.score + adjusted * weight,
                       weight |-> rest.weight + weight]

\* The result: overall is the fraction totalWeightedScore / totalWeight,
\* kept as numerator and denominator, or 5 when nothing was weighed.
calculateWeightedAverage(data, w) ==
    LET totals == WeightedTotals(data, w, 1)
    IN  [overall |-> IF totals.weight > 0
                     THEN <<totals.score, totals.weight>>
                     ELSE <<5, 1>>,
         totalWeight |-> totals.weight]

WeightInit ==
    /\ categoryAverages \in [Categories -> AverageInputs]
    /\ weights \in [Categories -> WeightInputs]
    /\ weightedAverage = <<>>

WeightIdle ==
    /\ categoryAverages = [c \in Categories |-> Undefined]
    /\ weights = [c \in Categories |-> Undefined]
    /\ weightedAverage = <<>>

weightedAverageCalled ==
    /\ weightedAverage = <<>>
    /\ weightedAverage' =
           <<calculateWeightedAverage(categoryAverages, weights)>>
    /\ UNCHANGED <<categoryAverages, weights>>
    /\ UNCHANGED WeightOthers

WeightNext == weightedAverageCalled

UtilIdle == RateIdle /\ SeverityIdle /\ RiskIdle /\ WeightIdle

(***************************************************************************)
(* errorHandling: retryWithBackoff(fn, maxRetries).                        *)
(***************************************************************************)
MaxRetriesBound == 4

\* What fn resolves with, and what it rejects with.
FnResults == {"r1", "r2"}
FnErrors == {"e1", "e2"}

\* attempt <= maxRetries, the loop's condition
LoopCondition(n, max) == n <= max

KeepFirstError(previous, error) == IF previous = <<>> THEN <<error>> ELSE previous

\* lastError = error
CatchError(previous, error) == <<error>>

\* The loop's test: into the body, or out of the loop to `throw lastError`.
LoopTest(n, max, err) ==
    IF LoopCondition(n, max)
    THEN /\ retryPc' = "calling"
         /\ retryOutcome' = retryOutcome
    ELSE /\ retryPc' = "thrown"
         /\ retryOutcome' = <<[threw |-> err]>>

RetryInit ==
    /\ maxRetries \in 0..MaxRetriesBound
    /\ attempt = 1
    /\ retryPc = "loop"
    /\ lastError = <<>>
    /\ retryOutcome = <<>>
    /\ invocations = <<>>

RetryIdle ==
    /\ maxRetries = 3
    /\ attempt = 1
    /\ retryPc = "loop"
    /\ lastError = <<>>
    /\ retryOutcome = <<>>
    /\ invocations = <<>>

\* The call starts: attempt = 1 and the loop's first test.
retryWithBackoff ==
    /\ retryPc = "loop"
    /\ LoopTest(attempt, maxRetries, lastError)
    /\ UNCHANGED <<maxRetries, attempt, lastError, invocations>>
    /\ UNCHANGED RetryOthers

\* return await fn(): fn's promise resolves.
fnResolved(result) ==
    /\ retryPc = "calling"
    /\ invocations' = Append(invocations, [ok |-> TRUE, value |-> result])
    /\ retryPc' = "returned"
    /\ retryOutcome' = <<[returned |-> result]>>
    /\ UNCHANGED <<maxRetries, attempt, lastError>>
    /\ UNCHANGED RetryOthers

\* fn throws or its promise rejects: the catch block, up to the break or the
\* await of the delay.
fnRejected(error) ==
    /\ retryPc = "calling"
    /\ invocations' = Append(invocations, [ok |-> FALSE, value |-> error])
    /\ lastError' = CatchError(lastError, error)
    /\ IF attempt = maxRetries
       THEN /\ retryPc' = "thrown"
            /\ retryOutcome' = <<[threw |-> lastError']>>
       ELSE /\ retryPc' = "waiting"
            /\ retryOutcome' = retryOutcome
    /\ UNCHANGED <<maxRetries, attempt>>
    /\ UNCHANGED RetryOthers

\* The delay's timer fires: attempt++ and the loop's test.
delayElapsed ==
    /\ retryPc = "waiting"
    /\ attempt' = attempt + 1
    /\ LoopTest(attempt + 1, maxRetries, lastError)
    /\ UNCHANGED <<maxRetries, lastError, invocations>>
    /\ UNCHANGED RetryOthers

RetryNext ==
    \/ retryWithBackoff
    \/ \E r \in FnResults : fnResolved(r)
    \/ \E e \in FnErrors : fnRejected(e)
    \/ delayElapsed

(***************************************************************************)
(* The useFeedback hook: fetchFeedbackData, its cache and the polling.     *)
(* The data of a response is named by the number of submissions the        *)
(* server had accepted when it read the aggregate.                         *)
(***************************************************************************)
MaxVersions == 2
MaxFetches == 2

\* A fetchFeedbackData request: since is the number of submissions accepted
\* when fetchFeedbackData was called, read is <<>> until the server has read
\* the aggregate.
FetchCall(since, read) == [since |-> since, read |-> read]

\* What a fetchFeedbackData call set as feedbackData.
Yield(since, version) == [since |-> since, version |-> version]

\* if (!forceRefresh) { const cachedData = loadFromCache(cacheKey);
\* if (cachedData) ... }: an entry younger than CACHE_EXPIRY is used,
\* whatever the server has accepted since it was saved.
CacheHit(forceRefresh) == ~forceRefresh /\ cacheEntry # <<>>

\* Mounted with a tripId: the effect has called fetchFeedbackData(), the
\* cache is empty, and the polling interval is set when enableRealTime is.
CacheInit ==
    /\ srvVersion = 0
    /\ cacheEntry = <<>>
    /\ ufFeedbackData = <<>>
    /\ fetchCalls = SetToBag({FetchCall(0, <<>>)})
    /\ lastYield = <<>>
    /\ refreshIntervalRef \in BOOLEAN
    /\ submitPc = "idle"

\* No useFeedback hook mounted.
CacheIdle ==
    /\ srvVersion = 0
    /\ cacheEntry = <<>>
    /\ ufFeedbackData = <<>>
    /\ fetchCalls = EmptyBag
    /\ lastYield = <<>>
    /\ refreshIntervalRef = FALSE
    /\ submitPc = "idle"

\* fetchFeedbackData(forceRefresh) up to its await: the cached data is set
\* and the call returns, or a request is sent.
fetchFeedbackData(forceRefresh) ==
    IF CacheHit(forceRefresh)
    THEN /\ ufFeedbackData' = cacheEntry
         /\ lastYield' = <<Yield(srvVersion, cacheEntry[1])>>
         /\ UNCHANGED fetchCalls
    ELSE /\ BagCardinality(fetchCalls) < MaxFetches
         /\ fetchCalls' = fetchCalls (+) SetToBag({FetchCall(srvVersion, <<>>)})
         /\ UNCHANGED <<ufFeedbackData, lastYield>>

\* The interval of connectRealTime fires: fetchFeedbackData().
pollTick ==
    /\ refreshIntervalRef
    /\ fetchFeedbackData(FALSE)
    /\ UNCHANGED <<srvVersion, cacheEntry, refreshIntervalRef, submitPc>>
    /\ UNCHANGED CacheOthers

\* refresh: fetchFeedbackData(true).
refresh ==
    /\ fetchFeedbackData(TRUE)
    /\ UNCHANGED <<srvVersion, cacheEntry, refreshIntervalRef, submitPc>>
    /\ UNCHANGED CacheOthers

\* disconnectRealTime: the interval is cleared.
disconnectRealTime ==
    /\ refreshIntervalRef
    /\ refreshIntervalRef' = FALSE
    /\ UNCHANGED <<srvVersion, cacheEntry, ufFeedbackData, fetchCalls,
                   lastYield, submitPc>>
    /\ UNCHANGED CacheOthers

\* The server reads the aggregate for a request.
serverReads(call) ==
    /\ call \in BagToSet(fetchCalls)
    /\ call.read = <<>>
    /\ fetchCalls' = (fetchCalls (-) SetToBag({call}))
                         (+) SetToBag({FetchCall(call.since, <<srvVersion>>)})
    /\ UNCHANGED <<srvVersion, cacheEntry, ufFeedbackData, lastYield,
                   refreshIntervalRef, submitPc>>
    /\ UNCHANGED CacheOthers

\* fetchFeedbackData after its await: a successful result is set and
\* cached, a failure sets the error only.
fetchSettled(call, success) ==
    /\ call \in BagToSet(fetchCalls)
    /\ call.read # <<>>
    /\ fetchCalls' = fetchCalls (-) SetToBag({call})
    /\ IF success
       THEN /\ ufFeedbackData' = call.read
            /\ cacheEntry' = call.read
            /\ lastYield' = <<Yield(call.since, call.read[1])>>
       ELSE UNCHANGED <<ufFeedbackData, cacheEntry, lastYield>>
    /\ UNCHANGED <<srvVersion, refreshIntervalRef, submitPc>>
    /\ UNCHANGED CacheOthers

\* Date.now() - cached.timestamp reaches CACHE_EXPIRY: loadFromCache
\* returns null from now on.
cacheExpires ==
    /\ cacheEntry # <<>>
    /\ cacheEntry' = <<>>
    /\ UNCHANGED <<srvVersion, ufFeedbackData, fetchCalls, lastYield,
                   refreshIntervalRef, submitPc>>
    /\ UNCHANGED CacheOthers

\* The server accepts the submission of another participant of the trip.
otherSubmissionAccepted ==
    /\ srvVersion < MaxVersions
    /\ srvVersion' = srvVersion + 1
    /\ UNCHANGED <<cacheEntry, ufFeedbackData, fetchCalls, lastYield,
                   refreshIntervalRef, submitPc>>
    /\ UNCHANGED CacheOthers

\* submitFeedbackData up to its await, seen from the cache.
hookSubmit ==
    /\ submitPc = "idle"
    /\ srvVersion < MaxVersions
    /\ submitPc' = "sent"
    /\ UNCHANGED <<srvVersion, cacheEntry, ufFeedbackData, fetchCalls,
                   lastYield, refreshIntervalRef>>
    /\ UNCHANGED CacheOthers

\* The server accepts the hook's submission.
ownSubmissionAccepted ==
    /\ submitPc = "sent"
    /\ submitPc' = "accepted"
    /\ srvVersion' = srvVersion + 1
    /\ UNCHANGED <<cacheEntry, ufFeedbackData, fetchCalls, lastYield,
                   refreshIntervalRef>>
    /\ UNCHANGED CacheOthers

\* submitFeedbackData after its await: result.success, so
\* await fetchFeedbackData(true).
refreshAfterSubmit ==
    /\ submitPc = "accepted"
    /\ submitPc' = "idle"
    /\ fetchFeedbackData(TRUE)
    /\ UNCHANGED <<srvVersion, cacheEntry, refreshIntervalRef>>
    /\ UNCHANGED CacheOthers

CacheNext ==
    \/ pollTick
    \/ refresh
    \/ disconnectRealTime
    \/ \E call \in BagToSet(fetchCalls) : serverReads(call)
    \/ \E call \in BagToSet(fetchCalls), success \in BOOLEAN :
          fetchSettled(call, success)
    \/ cacheExpires
    \/ otherSubmissionAccepted
    \/ hookSubmit
    \/ ownSubmissionAccepted
    \/ refreshAfterSubmit

(***************************************************************************)
(* The specifications: one per component, the other component at rest.     *)
(***************************************************************************)
vars == <<offlineVars, monitorVars, submitVars, hostVars, laterVars>>

\* ParticipantExperience not exercised: mounted online, nothing submitted.
\* The components added after the host's dashboard, at rest.
HookIdle == PreviewIdle /\ BroadcastIdle /\ SocketIdle

LaterIdle == HookIdle /\ UtilIdle /\ RetryIdle /\ CacheIdle

OfflineIdle ==
    /\ isOnline = TRUE
    /\ offlineQueue = <<>>
    /\ currentActivity = Null
    /\ nextItemId = 1
    /\ inFlight = EmptyBag
    /\ sent = <<>>
    /\ lastAccepted = [a \in Activities |-> <<>>]
    /\ runsDone = 0
    /\ superseded = [a \in Activities |-> "no"]

InitOffline == OfflineInit /\ MonitorIdle /\ SubmitIdle /\ HostIdle /\ LaterIdle

SpecOffline == InitOffline /\ [][OfflineNext]_vars

InitMonitor == MonitorInit /\ OfflineIdle /\ SubmitIdle /\ HostIdle /\ LaterIdle

SpecMonitor == InitMonitor /\ [][MonitorNext]_vars

\* ParticipantExperience showing VotingInterface for its current activity.
OfflineReady ==
    /\ isOnline \in BOOLEAN
    /\ offlineQueue = <<>>
    /\ currentActivity = "a1"
    /\ nextItemId = 1
    /\ inFlight = EmptyBag
    /\ sent = <<>>
    /\ lastAccepted = [a \in Activities |-> <<>>]
    /\ runsDone = 0
    /\ superseded = [a \in Activities |-> "no"]

InitSubmit == SubmitInit /\ OfflineReady /\ MonitorIdle /\ HostIdle /\ LaterIdle

InitHost == HostInit /\ OfflineIdle /\ MonitorIdle /\ SubmitIdle /\ LaterIdle

SpecHost == InitHost /\ [][HostNext]_vars

SpecSubmit == InitSubmit /\ [][SubmitNext]_vars

FirstIdle == OfflineIdle /\ MonitorIdle /\ SubmitIdle /\ HostIdle

InitPreview ==
    /\ PreviewInit /\ FirstIdle /\ BroadcastIdle /\ SocketIdle /\ UtilIdle
    /\ RetryIdle /\ CacheIdle

SpecPreview == InitPreview /\ [][PreviewNext]_vars

InitBroadcast ==
    /\ BroadcastInit /\ FirstIdle /\ PreviewIdle /\ SocketIdle /\ UtilIdle
    /\ RetryIdle /\ CacheIdle

SpecBroadcast == InitBroadcast /\ [][BroadcastNext]_vars

SpecListeners == InitBroadcast /\ [][ListenersNext]_vars

InitSocket ==
    /\ SocketInit /\ FirstIdle /\ PreviewIdle /\ BroadcastIdle /\ UtilIdle
    /\ RetryIdle /\ CacheIdle

SpecSocket == InitSocket /\ [][SocketNext]_vars

SpecConnection == InitSocket /\ [][ConnectionNext]_vars

SpecRoster == InitSocket /\ [][RosterNext]_vars

InitRate ==
    /\ RateInit /\ FirstIdle /\ HookIdle /\ SeverityIdle /\ RiskIdle
    /\ WeightIdle /\ RetryIdle /\ CacheIdle

SpecRate == InitRate /\ [][RateNext]_vars

InitSeverity ==
    /\ SeverityInit /\ FirstIdle /\ HookIdle /\ RateIdle /\ RiskIdle
    /\ WeightIdle /\ RetryIdle /\ CacheIdle

SpecSeverity == InitSeverity /\ [][SeverityNext]_vars

InitRisk ==
    /\ RiskInit /\ FirstIdle /\ HookIdle /\ RateIdle /\ SeverityIdle
    /\ WeightIdle /\ RetryIdle /\ CacheIdle

SpecRisk == InitRisk /\ [][RiskNext]_vars

InitWeight ==
    /\ WeightInit /\ FirstIdle /\ HookIdle /\ RateIdle /\ SeverityIdle
    /\ RiskIdle /\ RetryIdle /\ CacheIdle

SpecWeight == InitWeight /\ [][WeightNext]_vars

InitRetry == RetryInit /\ FirstIdle /\ HookIdle /\ UtilIdle /\ CacheIdle

SpecRetry == InitRetry /\ [][RetryNext]_vars

\* A call fn makes settles, and a timer that was set fires.
SpecRetryFair == SpecRetry /\ WF_vars(RetryNext)

InitCache == CacheInit /\ FirstIdle /\ HookIdle /\ UtilIdle /\ RetryIdle

SpecCache == InitCache /\ [][CacheNext]_vars

(***************************************************************************)
(* Properties of the offline queue, checked under SpecOffline.             *)
(***************************************************************************)
NoReplayInFlight == \A call \in BagToSet(inFlight) : call.kind # "replay"

C2_QueuedEntriesReplayedInOrder ==
    (isOnline /\ NoReplayInFlight) =>
        /\ \A k \in DOMAIN offlineQueue : offlineQueue[k].id \in Range(sent)
        /\ \A i, j \in DOMAIN sent : i < j => sent[i] < sent[j]

OverallAlerts(list) ==
    Cardinality({k \in DOMAIN list :
        list[k].title \in {"CRITICAL: Group fatigue level",
                           "HIGH: Group fatigue level"}})

\* C5: the overall risk alert is edge-triggered.  When an analysis finds the
\* overall score in the HIGH/CRITICAL band, the analysis before it found it in
\* the band too, and the alert raised then is still in the list, the analysis
\* adds no further overall alert.
C5_AlertEdgeTriggered ==
    [][(/\ Len(analysed') = Len(analysed) + 1
        /\ Len(analysed) > 0
        /\ analysed[Len(analysed)] = "in"
        /\ analysed'[Len(analysed')] = "in"
        /\ OverallAlerts(alerts) >= 1)
       => OverallAlerts(alerts') <= OverallAlerts(alerts)]_vars

\* C10: every FORCE_CONTINUE decision request was sent for a user whose role
\* is host.
C10_ForceContinueOnlyByHost ==
    \A k \in DOMAIN decisions :
        decisions[k].decision = "FORCE_CONTINUE" => decisions[k].admin = "host"

(***************************************************************************)
(* Properties of the submit paths, checked under SpecSubmit.               *)
(***************************************************************************)
\* C6: no submission with a category value that is not a number from 1 to 10
\* is sent to the server or put into the offline queue, on any submit path.
C6_InvalidValuesNeverSent ==
    /\ \A k \in DOMAIN requests : validateFeedbackData(requests[k].feedback)
    /\ \A k \in DOMAIN offlineQueue :
           validateFeedbackData(offlineQueue[k].feedback)
    /\ \A call \in BagToSet(inFlight) : validateFeedbackData(call.feedback)

(***************************************************************************)
(* The activity lifecycle.                                                 *)
(***************************************************************************)
\* The dashboard's status request `call` is answered in this step.
Answered(call) == hostCalls' = hostCalls (-) SetToBag({call})

AtMostOneInProgress ==
    Cardinality({a \in Activities : srvStatus[a] \in InProgress}) <= 1

\* C7: at most one activity is active (or awaiting consensus) at any time,
\* and a startActivity answered while another activity is in progress is
\* rejected with ActivityInProgress and changes no activity's status, on the
\* server or on the dashboard, nor the current activity, nor announces a
\* start.
C7_OneActiveAndRejectedStartChangesNothing ==
    [][/\ AtMostOneInProgress'
       /\ \A call \in BagToSet(hostCalls) :
             (/\ Answered(call)
              /\ call.status = "active"
              /\ OtherInProgress(srvStatus, call.activityId))
             => /\ lastResponse'[1].response = "ActivityInProgress"
                /\ UNCHANGED <<srvStatus, activities, hdCurrentActivity,
                               hostSent>>]_vars

\* A start was rejected while the other activity is in progress.
C7_StartRejectedWhileOtherInProgress ==
    /\ lastResponse = <<[call |-> StatusCall("a2", "active"),
                         response |-> "ActivityInProgress"]>>
    /\ srvStatus["a1"] \in InProgress
    /\ srvStatus["a2"] = "pending"

Lifecycle ==
    {<<"pending", "active">>, <<"active", "awaiting_consensus">>,
     <<"awaiting_consensus", "completed">>, <<"awaiting_consensus", "pivoted">>}

C12_ListenersSeeCallOrder ==
    \A l \in Callbacks :
        \A i, j \in 1..Len(received[l]) :
            i < j => received[l][i] < received[l][j]

(***************************************************************************)
(* The useWebSocket hook.                                                  *)
(***************************************************************************)
\* C13: a status message for the client's current activity is never
\* dropped: when the last message handled is a status message whose
\* activity_id is the current activity's, the current activity has the
\* message's new_status.
C13_StatusMessageApplied ==
    (/\ lastMessage # <<>>
     /\ lastMessage[1].type \in StatusTypes
     /\ wsCurrentActivity # <<>>
     /\ lastMessage[1].activity_id = wsCurrentActivity[1].activity_id)
    => wsCurrentActivity[1].status = lastMessage[1].new_status

\* C14: no message sent for broadcast and no recentFeedback entry pairs a
\* participant's id with that participant's own category values.
C14_NoIdWithOwnValues ==
    /\ \A m \in wsSent : m.feedback_data.of # m.user_id
    /\ \A i \in 1..Len(recentFeedback) :
          recentFeedback[i].feedback_preview.of # recentFeedback[i].user_id

\* C18: at most one socket of the hook is connecting or open.
C18_OneLiveSession ==
    Cardinality({n \in 1..MaxSockets : socketStates[n] \in Live}) <= 1

\* C19: no request with a missing activity id is sent: every submit path
\* rejects the submission before calling submitFeedback.
C19_NoRequestWithoutActivityId ==
    \A i \in 1..Len(requests) : requests[i].activityId # NoId

\* C15: whatever non-negative counts the component is given, the response
\* rate it shows is an integer percentage from 0 to 100, and it is 0 when
\* there are no participants.
C15_ResponseRateWithinPercent ==
    shownRate # <<>> =>
        /\ shownRate[1] \in 0..100
        /\ participantCount = 0 => shownRate[1] = 0

\* C16: for a value v from 1 to 10, a lower-is-worse category at v gets the
\* tier a higher-is-worse category gets at 11 - v.
C16_SeverityMirrored ==
    \A c \in Categories, d \in Categories :
        ( /\ inverseScale(c) /\ ~inverseScale(d)
          /\ severities[c] # <<>> /\ severities[d] # <<>>
          /\ averages[c][1] = "number" /\ averages[c][2] \in 1..10
          /\ averages[d] = Num(11 - averages[c][2]) )
        => severities[c] = severities[d]

\* The rank of a tier, EXCELLENT 1 to CRITICAL 5.
RankOf(tier) ==
    CASE tier = "EXCELLENT" -> 1
      [] tier = "LOW" -> 2
      [] tier = "MODERATE" -> 3
      [] tier = "HIGH" -> 4
      [] tier = "CRITICAL" -> 5

\* The sum of the five categories' ranks.
RankSum(data) ==
    RankOf(data["tired"]) + RankOf(data["energetic"]) + RankOf(data["sick"])
        + RankOf(data["hungry"]) + RankOf(data["adventurous"])

\* The mean of five ranks, rounded to the nearest rank, halves up.
RoundedMeanRank(data) == (2 * RankSum(data) + 5) \div 10

AllTiered == \A c \in Categories : feedbackSeverities[c] \in SeverityTiers

\* C17: when each of the five categories has one of the five tiers, both
\* getOverallRiskLevel functions return the tier whose rank is the mean of
\* the five ranks rounded to the nearest integer.
C17_OverallRiskIsRoundedMean ==
    AllTiered =>
        /\ hookRisk # <<>> =>
             /\ hookRisk[1] \in SeverityTiers
             /\ RankOf(hookRisk[1]) = RoundedMeanRank(feedbackSeverities)
        /\ discoveryRisk # <<>> =>
             /\ discoveryRisk[1] \in SeverityTiers
             /\ RankOf(discoveryRisk[1]) = RoundedMeanRank(feedbackSeverities)

\* C17 witness: four categories CRITICAL and one EXCELLENT (mean 4.2), and
\* both functions have answered HIGH.
C17_MixedTiersAveraged ==
    /\ feedbackSeverities = [c \in Categories |->
                                IF c = "sick" THEN "EXCELLENT" ELSE "CRITICAL"]
    /\ hookRisk = <<"HIGH">>
    /\ discoveryRisk = <<"HIGH">>

Failures == SelectSeq(invocations, LAMBDA inv : ~inv.ok)

\* What holds of a call with maxRetries >= 1 at every moment.
RetryBounded ==
    maxRetries >= 1 =>
        /\ Len(invocations) <= maxRetries
        /\ \A i \in 1..Len(invocations) :
             invocations[i].ok => i = Len(invocations)
        /\ retryPc = "returned" =>
             /\ Len(invocations) >= 1
             /\ invocations[Len(invocations)].ok
             /\ retryOutcome = <<[returned |-> invocations[Len(invocations)].value]>>
        /\ retryPc = "thrown" =>
             /\ Len(invocations) = maxRetries
             /\ Failures = invocations
             /\ retryOutcome = <<[threw |-> <<invocations[maxRetries].value>>]>>
        /\ invocations # <<>> /\ invocations[Len(invocations)].ok
             => retryPc = "returned"

RetrySettled == retryPc \in {"returned", "thrown"}

\* C20: a call with maxRetries >= 1 invokes fn at most maxRetries times,
\* returns the first success without invoking fn again, throws the last
\* invocation's error once maxRetries invocations have failed, and always
\* comes to one of the two ends, having invoked fn at least once.
C20_RetryBoundedAndSettles ==
    /\ []RetryBounded
    /\ <>RetrySettled
    /\ [](RetrySettled /\ maxRetries >= 1 => Len(invocations) >= 1)

\* C20 witness: three invocations failed with different errors and the call
\* threw the third one's.
C20_ThrownAfterAllFailed ==
    /\ maxRetries = 3
    /\ invocations = <<[ok |-> FALSE, value |-> "e1"], [ok |-> FALSE, value |-> "e1"],
                       [ok |-> FALSE, value |-> "e2"]>>
    /\ retryPc = "thrown"
    /\ retryOutcome = <<[threw |-> <<"e2">>]>>

\* C21: one press of Submit in the voting UI gives exactly one request, the
\* one ActivityFeedback sends with the chosen values: the onSuccess and
\* onFeedbackSubmitted callbacks send no request of their own and queue
\* nothing.
C21_OneRequestPerSubmit ==
    /\ \A i \in 1..Len(requests) : requests[i].path # "vi"
    /\ inFlight = EmptyBag
    /\ offlineQueue = <<>>

\* C30: for the same per-category severities, missing ones included, the
\* hook's getOverallRiskLevel and the dashboard's return the same tier.
C30_RiskImplementationsAgree ==
    (hookRisk # <<>> /\ discoveryRisk # <<>>) => hookRisk = discoveryRisk

\* A socket's connection is established in this step.
Opened ==
    \E n \in 1..MaxSockets :
        socketStates[n] = "connecting" /\ socketStates'[n] = "open"

\* scheduleReconnect sets a timer in this step.
Scheduled ==
    connectionStatus' # connectionStatus /\ connectionStatus'[1] = "reconnecting"

\* C25: every reconnection scheduled counts one attempt, the attempts never
\* exceed MAX_RECONNECT_ATTEMPTS, only a successful open lowers them and every
\* successful open resets them to 0: so at most MAX_RECONNECT_ATTEMPTS
\* reconnections are scheduled without an open in between.
C25_ReconnectionBounded ==
    [][ /\ reconnectAttempts' <= MAX_RECONNECT_ATTEMPTS
        /\ Scheduled => reconnectAttempts' = reconnectAttempts + 1
        /\ reconnectAttempts' < reconnectAttempts => Opened
        /\ Opened => reconnectAttempts' = 0 ]_vars

\* C25 witness: the first socket and five reconnections have failed, and no
\* further reconnection is scheduled.
C25_AttemptsUsedUp ==
    /\ reconnectAttempts = MAX_RECONNECT_ATTEMPTS
    /\ ~constructorThrows
    /\ \A n \in 1..MaxSockets : socketStates[n] \in Gone
    /\ ~reconnectTimer /\ strayTimers = 0
    /\ connectionStatus = Status("disconnected")

\* Nothing is pending: no socket in use, no reconnect timer.
Quiet ==
    /\ \A n \in 1..MaxSockets : socketStates[n] \in Gone
    /\ ~reconnectTimer /\ strayTimers = 0

\* C26: once the attempts are used up and the last connection has failed,
\* with nothing left pending, connectionStatus is 'failed'.
C26_ExhaustedShowsFailed ==
    ( /\ reconnectAttempts = MAX_RECONNECT_ATTEMPTS
      /\ ~constructorThrows
      /\ Quiet /\ ~afterDisconnect )
        => connectionStatus = Status("failed")

\* C27: after disconnect and until connect is called again, no reconnect
\* timer and no heartbeat interval is pending.
C27_NothingPendingAfterDisconnect ==
    afterDisconnect =>
        /\ ~reconnectTimer /\ strayTimers = 0
        /\ ~heartbeatRef /\ strayHeartbeats = 0

\* The heartbeat intervals that are running.
HeartbeatsRunning == (IF heartbeatRef THEN 1 ELSE 0) + strayHeartbeats

\* C28: at most one heartbeat interval runs, and none while no socket is
\* open.
C28_OneHeartbeatWhileOpen ==
    /\ HeartbeatsRunning <= 1
    /\ (\A n \in 1..MaxSockets : socketStates[n] # "open") => HeartbeatsRunning = 0

InRoster(u) == \E i \in 1..Len(participants) : participants[i].user_id = u

\* C29: the participants list names no user twice, and it names a user
\* exactly when the last roster event about the user was a join or the
\* user's presence in initial_data.
C29_RosterFollowsEvents ==
    /\ \A i \in 1..Len(participants), j \in 1..Len(participants) :
          participants[i].user_id = participants[j].user_id => i = j
    /\ \A u \in RosterUsers : InRoster(u) <=> rosterEvents[u] \in {"initial", "joined"}

\* C29 witness: of the initial roster u3, u2, u2 has left, and u1 has
\* joined twice.
C29_LeftAndJoined ==
    /\ participants = <<Participant("u3"), Participant("u1")>>
    /\ rosterEvents = [u \in RosterUsers |->
                          CASE u = "u1" -> "joined" [] u = "u2" -> "left"
                            [] OTHER -> "initial"]
    /\ lastMessage # <<>>
    /\ lastMessage[1].type = "participant_joined"

(***************************************************************************)
(* SocketService: a listener that throws.                                  *)
(***************************************************************************)
\* How many times a callback was handed a call.
TimesHanded(l, call) ==
    Cardinality({i \in 1..Len(received[l]) : received[l][i] = call})

\* C24: every broadcastToTrip call hands the message exactly once to each
\* listener registered for the call's trip, also when a listener called
\* before it throws, and never to a callback that is registered for other
\* trips only.
C24_EveryListenerCalledOnce ==
    \A call \in 1..Len(dispatched), l \in Callbacks :
        TimesHanded(l, call) =
            IF l \in Range(dispatched[call].listeners) THEN 1 ELSE 0

\* A call whose first listener throws and whose second listener was handed
\* it, while a callback of the other trip was not; the listeners are still
\* the ones the call found.
C24_LaterListenerCalledAfterThrow ==
    \E call \in 1..Len(dispatched) :
        LET to == dispatched[call]
        IN  /\ Len(to.listeners) >= 2
            /\ to.listeners = eventListeners[to.trip]
            /\ to.listeners[1] \in throwing
            /\ TimesHanded(to.listeners[2], call) = 1
            /\ \E l \in Callbacks \ Range(to.listeners) :
                   /\ \E t \in Trips \ {to.trip} :
                          l \in Range(eventListeners[t])
                   /\ TimesHanded(l, call) = 0

(***************************************************************************)
(* calculateWeightedAverage.                                               *)
(***************************************************************************)
\* The sums the configured weights ask for: a missing weight counts 1, and
\* a weight of 0 counts 0.
RECURSIVE ConfiguredTotals(_)
ConfiguredTotals(i) ==
    IF i > Len(CategoryOrder) THEN [score |-> 0, weight |-> 0]
    ELSE LET categoryKey == CategoryOrder[i]
             rest == ConfiguredTotals(i + 1)
         IN  IF categoryAverages[categoryKey] = Undefined THEN rest
             ELSE LET weight == WeightAsConfigured(weights[categoryKey])
                      adjusted ==
                          IF categoryKey \in {"energetic", "adventurous"}
                          THEN 11 - categoryAverages[categoryKey][2]
                          ELSE categoryAverages[categoryKey][2]
                  IN  [score |-> rest.score + weight * adjusted,
                       weight |-> rest.weight + weight]

\* C23: the overall score is the sum of weight x adjusted average divided
\* by the sum of the weights, where a category without a configured weight
\* counts with weight 1 and a category configured with weight 0 contributes
\* nothing (the fractions are compared by cross-multiplication; the claim
\* says nothing when the weights sum to 0).
C23_ConfiguredWeightsHonoured ==
    (weightedAverage # <<>> /\ ConfiguredTotals(1).weight > 0)
    => weightedAverage[1].overall[1] * ConfiguredTotals(1).weight
           = ConfiguredTotals(1).score * weightedAverage[1].overall[2]

(***************************************************************************)
(* The useFeedback hook's snapshot.                                        *)
(***************************************************************************)
\* C22: a fetchFeedbackData call, a polling tick included, yields data at
\* least as new as every submission the server had accepted when the call
\* was made, never an older cached snapshot.
C22_FetchYieldsLatestAccepted ==
    lastYield # <<>> => lastYield[1].version >= lastYield[1].since

====
